---- MODULE Spec2Model ----
(***************************************************************************)
(* Reconciliation of scraped job postings, news articles and funding       *)
(* rounds against the job_postings, news_articles, funding_rounds and      *)
(* scraping_runs tables.                                                   *)
(*                                                                         *)
(* Every reconciliation routine is a pure operator from (table, inputs) to *)
(* (table, outcome, counts); an action applies one whole call to the       *)
(* state.  Each database operation of a call may throw; the point of       *)
(* failure is an input of the call.  Time is a logical clock with one tick *)
(* per call: a call reads `new Date()` once, and calls run one after the   *)
(* other.  Raw blobs uploaded to object storage are write-only for the     *)
(* program and are not part of the state; only the failure of the upload   *)
(* is modelled.                                                            *)
(***************************************************************************)
EXTENDS Integers, Sequences, FiniteSets, TLC

VARIABLES
    jobPostings,      \* table job_postings: a set of rows (the file-based
                      \* pipeline keeps it as the array of job_postings.json)
    newsArticles,     \* table news_articles: a set of rows
    fundingRounds,    \* table funding_rounds: a set of rows
    fundraisingSummaries, \* table fundraising_summaries: a set of rows
    scrapingRuns,     \* table scraping_runs: a sequence of rows, oldest first
    nextId,           \* source of fresh row ids (gen_random_uuid / randomUUID)
    clock,            \* the wall clock, in ticks
    call,             \* the last call: operation, arguments, outcome, counts
    pre,              \* job_postings as it was when the last call started
    preRuns,          \* number of scraping_runs rows when the last call started
    repeat,           \* the last call repeats the call before it (same
                      \* operation, company and list; the first one returned)
    input,            \* the argument of a call of a utility function
    output,           \* what that call returned
    cycles            \* the cycles in progress, one per company: the position
                      \* of each in its routine and its local variables

vars == <<jobPostings, newsArticles, fundingRounds, fundraisingSummaries,
          scrapingRuns, nextId, clock, call, pre, preRuns, repeat, input, output,
          cycles>>

----------------------------------------------------------------------------
(* Bounds *)

MaxJobs == 2      \* longest incoming list
MaxTime == 3      \* last tick of the clock (one call per tick)
MaxRunTime == 2   \* last tick at which a pipeline run starts
MaxArticles == 2  \* longest list of fetched news results
MaxSources == 2   \* longest list of fetched funding sources
MaxRounds == 2    \* most funding rounds extracted from one source
MaxWords == 2     \* most words of a job title

----------------------------------------------------------------------------
(* Values *)

Undefined == "undefined"     \* JavaScript undefined / an absent property
Null == "null"               \* SQL NULL / JavaScript null
NullTime == -1               \* SQL NULL in a timestamp column

Companies == {"c1", "c2"}
\* Companies are interchangeable: the cycles of this model reconcile c1,
\* while c2 owns a posting that a cycle at tick 0 created.
Reconciled == {"c1"}
ExternalIds == {"e1", "e2"}
Descriptions == {"d1", "d2"}
HtmlDescriptions == {"<p>d1</p>"}
Titles == {"Engineer"}

\* AshbyJob, restricted to the properties the reconciliation reads.  A job
\* carries a plain description, or only an HTML one, or none; its id may be
\* missing from the provider's JSON.
AshbyJob ==
    { [id |-> i, title |-> t, descriptionPlain |-> p, descriptionHtml |-> h] :
        i \in ExternalIds \cup {Undefined}, t \in Titles,
        p \in Descriptions \cup {Undefined},
        h \in HtmlDescriptions \cup {Undefined} }

\* The jobs the provider returns in this model: a posting whose plain
\* description changes, a posting with an HTML description only, and one
\* that lacks its id.
Jobs ==
    { j \in AshbyJob :
        \/ j.id = "e1" /\ j.descriptionPlain # Undefined /\ j.descriptionHtml = Undefined
        \/ j.id = "e2" /\ j.descriptionPlain = Undefined /\ j.descriptionHtml # Undefined
        \/ j.id = Undefined /\ j.descriptionPlain = "d1" /\ j.descriptionHtml = Undefined }

JobLists == UNION { [1..n -> Jobs] : n \in 0..MaxJobs }

\* Lists in which the provider repeats a posting: a list followed by one
\* more job with the id of one of its jobs.
RepeatingLists ==
    UNION { { l \o <<j>> : j \in { x \in Jobs : /\ x.id # Undefined
                                                 /\ \E i \in 1..Len(l) : l[i].id = x.id } }
              : l \in JobLists }

\* The revisions of one posting: its title, its plain description and its
\* HTML description each change or go missing from one fetch to the next.
RevisedTitles == {"Engineer", " Manager "}
RevisedHtmlDescriptions == {"<p>d1</p>", "<p>d2</p>"}

Revisions ==
    { [id |-> "e1", title |-> t, descriptionPlain |-> p, descriptionHtml |-> h] :
        t \in RevisedTitles,
        p \in Descriptions \cup {Undefined},
        h \in RevisedHtmlDescriptions \cup {Undefined} }

\* The board lists the posting, in one of its revisions, or nothing.
RevisionLists == UNION { [1..n -> Revisions] : n \in 0..1 }

\* String.prototype.trim, on the titles of this model.
trim(text) == IF text = " Manager " THEN "Manager" ELSE text

Range(s) == { s[i] : i \in 1..Len(s) }

\* a ?? b
Coalesce(a, b) == IF a = Undefined \/ a = Null THEN b ELSE a

\* The digest of the content as it is, without ?? "".
hashContent_NoDefault(content) == "sha256:" \o content

\* SHA-256 hex digest of the content, undefined hashed as the empty string.
\* The digest is modelled as an injective tagging of the hashed text.
hashContent(content) == "sha256:" \o Coalesce(content, "")

\* The counts a call returns; a routine leaves at 0 the counts it does not
\* have (found: jobsFound / articlesFound / sourcesFound).
ZeroCounts == [jobsFound |-> 0, jobsNew |-> 0, jobsUpdated |-> 0, jobsRemoved |-> 0,
               totalExtracted |-> 0]

Counts(n, u, r) == [ZeroCounts EXCEPT !.jobsNew = n, !.jobsUpdated = u, !.jobsRemoved = r]

Returned(table, ids, counts) ==
    [table |-> table, nextId |-> ids, outcome |-> "returned", result |-> counts,
     injected |-> FALSE]

\* The error caught and logged: the call returns counts of 0.
Threw_Swallowed(table, ids, injected) ==
    [table |-> table, nextId |-> ids, outcome |-> "returned", result |-> ZeroCounts,
     injected |-> injected]

\* The call throws; `injected` tells a database operation that was made to
\* fail from an error the call raises by itself.
Threw(table, ids, injected) ==
    [table |-> table, nextId |-> ids, outcome |-> "threw", result |-> ZeroCounts,
     injected |-> injected]

NoFail == [op |-> "none", k |-> 0]

\* Prisma's handling of `undefined` inside an `in` / `notIn` array: a strict
\* client rejects the query, a lenient one drops the element.
InList(ids) == Range(ids) \ {Undefined}

HasUndefinedId(jobs) == \E i \in 1..Len(jobs) : jobs[i].id = Undefined

\* A column written from a JavaScript value: undefined is stored as NULL.
Column(v) == IF v = Undefined THEN Null ELSE v

----------------------------------------------------------------------------
(* JobProcessingService.syncAshbyJobs *)

\* Indices of the jobs of the list, in list order, that satisfy P.
RECURSIVE SelectIdx(_, _, _)
SelectIdx(n, keep, i) ==
    IF i > n THEN <<>>
    ELSE IF i \in keep THEN <<i>> \o SelectIdx(n, keep, i + 1)
    ELSE SelectIdx(n, keep, i + 1)

\* A table without the unique index.
ViolatesUnique_NoIndex(rows, table) == FALSE

\* The unique constraint job_postings(companyId, source, externalId); NULL
\* external ids never conflict.
ViolatesUnique(rows, table) ==
    \/ \E a, b \in 1..Len(rows) :
          /\ a # b
          /\ rows[a].externalId # Null
          /\ rows[a].externalId = rows[b].externalId
          /\ rows[a].companyId = rows[b].companyId
          /\ rows[a].source = rows[b].source
    \/ \E a \in 1..Len(rows) : \E r \in table :
          /\ rows[a].externalId # Null
          /\ rows[a].externalId = r.externalId
          /\ rows[a].companyId = r.companyId
          /\ rows[a].source = r.source

\* The lookup without the restriction to the incoming external ids.
FindExisting_WholeScope(table, companyId, ids) ==
    { r \in table : r.companyId = companyId /\ r.source = "ashby" }

FindExisting(table, companyId, ids) ==
    { r \in table : /\ r.companyId = companyId
                    /\ r.source = "ashby"
                    /\ r.externalId \in InList(ids) }

ExistingFor(existing, id) ==
    { r \in existing : r.externalId = id }

\* The update handed the whole prepared row, firstSeenAt included.
SyncUpdateRow_WholeJobData(r, op) ==
    [op EXCEPT !.id = r.id]

\* prisma.jobPosting.update of syncAshbyJobs: every listed column is
\* written, firstSeenAt is not among them.
SyncUpdateRow(r, op) ==
    [r EXCEPT !.title = op.title,
              !.description = op.description,
              !.descriptionHtml = op.descriptionHtml,
              !.descriptionHash = op.descriptionHash,
              !.lastSeenAt = op.lastSeenAt,
              !.removedAt = NullTime]

\* The updates without the descriptionHash column.
RECURSIVE ApplySyncUpdates_StaleHash(_, _, _)
ApplySyncUpdates_StaleHash(table, ops, n) ==
    IF n = 0 THEN table
    ELSE LET t == ApplySyncUpdates_StaleHash(table, ops, n - 1)
         IN  { IF r.id = ops[n].id
               THEN [SyncUpdateRow(r, ops[n]) EXCEPT !.descriptionHash = r.descriptionHash]
               ELSE r : r \in t }

RECURSIVE ApplySyncUpdates(_, _, _)
ApplySyncUpdates(table, ops, n) ==
    IF n = 0 THEN table
    ELSE LET t == ApplySyncUpdates(table, ops, n - 1)
         IN  { IF r.id = ops[n].id THEN SyncUpdateRow(r, ops[n]) ELSE r : r \in t }

\* The prepared row without its lastSeenAt.
SyncJobData_NoLastSeenAt(companyId, job, now, id) ==
    LET description == Coalesce(job.descriptionPlain, job.descriptionHtml)
    IN  [id |-> id,
         companyId |-> companyId,
         source |-> "ashby",
         externalId |-> Column(job.id),
         title |-> Coalesce(trim(job.title), ""),
         description |-> Coalesce(description, Null),
         descriptionHtml |-> Coalesce(job.descriptionHtml, Null),
         descriptionHash |-> hashContent(description),
         firstSeenAt |-> now,
         lastSeenAt |-> NullTime,
         removedAt |-> NullTime]

SyncJobData(companyId, job, now, id) ==
    LET description == Coalesce(job.descriptionPlain, job.descriptionHtml)
    IN  [id |-> id,
         companyId |-> companyId,
         source |-> "ashby",
         externalId |-> Column(job.id),
         title |-> Coalesce(trim(job.title), ""),
         description |-> Coalesce(description, Null),
         descriptionHtml |-> Coalesce(job.descriptionHtml, Null),
         descriptionHash |-> hashContent(description),
         firstSeenAt |-> now,
         lastSeenAt |-> now,
         removedAt |-> NullTime]

\* The routine with step 4 (the updates) ahead of step 3 (the creates).
syncAshbyJobs_UpdatesFirst(table, ids, companyId, jobs, now, fail, lenient) ==
    IF Len(jobs) = 0 THEN Returned(table, ids, Counts(0, 0, 0))
    ELSE
    LET incomingExternalIds == [i \in 1..Len(jobs) |-> jobs[i].id]
    IN
    IF fail.op = "findMany" \/ (HasUndefinedId(jobs) /\ ~lenient)
    THEN Threw(table, ids, fail.op = "findMany")
    ELSE
    LET existingJobPostings == FindExisting(table, companyId, incomingExternalIds)
        deletedByExternalId ==
            { r \in existingJobPostings :
                r.externalId # Null /\ r.externalId \notin Range(incomingExternalIds) }
        isUpdate(i) == ExistingFor(existingJobPostings, jobs[i].id) # {}
        createIdx == SelectIdx(Len(jobs), { i \in 1..Len(jobs) : ~isUpdate(i) }, 1)
        updateIdx == SelectIdx(Len(jobs), { i \in 1..Len(jobs) : isUpdate(i) }, 1)
        createOps == [k \in 1..Len(createIdx) |->
                        SyncJobData(companyId, jobs[createIdx[k]], now, ids + k)]
        updateOps == [k \in 1..Len(updateIdx) |->
                        [SyncJobData(companyId, jobs[updateIdx[k]], now, 0)
                           EXCEPT !.id = (CHOOSE r \in ExistingFor(existingJobPostings,
                                              jobs[updateIdx[k]].id) : TRUE).id]]
        created == table \cup Range(createOps)
        idsAfter == ids + Len(createOps)
    IN
    IF Len(createOps) > 0 /\ (fail.op = "createMany" \/ ViolatesUnique(createOps, table))
    THEN Threw(ApplySyncUpdates(table, updateOps, Len(updateOps)), ids,
               fail.op = "createMany")
    ELSE
    LET t3 == IF Len(createOps) > 0 THEN created ELSE table
        i3 == IF Len(createOps) > 0 THEN idsAfter ELSE ids
    IN
    IF fail.op = "update" /\ fail.k \in 1..Len(updateOps)
    THEN Threw(ApplySyncUpdates(t3, updateOps, fail.k - 1), i3, TRUE)
    ELSE
    LET t4 == ApplySyncUpdates(t3, updateOps, Len(updateOps))
        deletedIds == { r.id : r \in deletedByExternalId }
    IN
    IF deletedByExternalId # {} /\ fail.op = "deleteMany"
    THEN Threw(t4, i3, TRUE)
    ELSE
    LET t5 == IF deletedByExternalId # {}
              THEN { r \in t4 : r.id \notin deletedIds }
              ELSE t4
    IN  Returned(t5, i3, Counts(Len(createOps), Len(updateOps),
                                Cardinality(deletedByExternalId)))

syncAshbyJobs(table, ids, companyId, jobs, now, fail, lenient) ==
    IF Len(jobs) = 0 THEN Returned(table, ids, Counts(0, 0, 0))
    ELSE
    LET incomingExternalIds == [i \in 1..Len(jobs) |-> jobs[i].id]
    IN
    IF fail.op = "findMany" \/ (HasUndefinedId(jobs) /\ ~lenient)
    THEN Threw(table, ids, fail.op = "findMany")
    ELSE
    LET existingJobPostings == FindExisting(table, companyId, incomingExternalIds)
        deletedByExternalId ==
            { r \in existingJobPostings :
                r.externalId # Null /\ r.externalId \notin Range(incomingExternalIds) }
        isUpdate(i) == ExistingFor(existingJobPostings, jobs[i].id) # {}
        createIdx == SelectIdx(Len(jobs), { i \in 1..Len(jobs) : ~isUpdate(i) }, 1)
        updateIdx == SelectIdx(Len(jobs), { i \in 1..Len(jobs) : isUpdate(i) }, 1)
        createOps == [k \in 1..Len(createIdx) |->
                        SyncJobData(companyId, jobs[createIdx[k]], now, ids + k)]
        updateOps == [k \in 1..Len(updateIdx) |->
                        [SyncJobData(companyId, jobs[updateIdx[k]], now, 0)
                           EXCEPT !.id = (CHOOSE r \in ExistingFor(existingJobPostings,
                                              jobs[updateIdx[k]].id) : TRUE).id]]
        created == table \cup Range(createOps)
        idsAfter == ids + Len(createOps)
    IN
    IF Len(createOps) > 0 /\ (fail.op = "createMany" \/ ViolatesUnique(createOps, table))
    THEN Threw(table, ids, fail.op = "createMany")
    ELSE
    LET t3 == IF Len(createOps) > 0 THEN created ELSE table
        i3 == IF Len(createOps) > 0 THEN idsAfter ELSE ids
    IN
    IF fail.op = "update" /\ fail.k \in 1..Len(updateOps)
    THEN Threw(ApplySyncUpdates(t3, updateOps, fail.k - 1), i3, TRUE)
    ELSE
    LET t4 == ApplySyncUpdates(t3, updateOps, Len(updateOps))
        deletedIds == { r.id : r \in deletedByExternalId }
    IN
    IF deletedByExternalId # {} /\ fail.op = "deleteMany"
    THEN Threw(t4, i3, TRUE)
    ELSE
    LET t5 == IF deletedByExternalId # {}
              THEN { r \in t4 : r.id \notin deletedIds }
              ELSE t4
    IN  Returned(t5, i3, Counts(Len(createOps), Len(updateOps),
                                Cardinality(deletedByExternalId)))

----------------------------------------------------------------------------
(* DataProcessor.upsertAshbyJobs of backend/src/data/data-processor.ts *)

\* Steps 1, 2, 4 and 6 are those of syncAshbyJobs; step 5 logs the number
\* of prepared updates and runs no query.
upsertAshbyJobsBackend(table, ids, companyId, jobs, now, fail, lenient) ==
    IF Len(jobs) = 0 THEN Returned(table, ids, Counts(0, 0, 0))
    ELSE
    LET incomingExternalIds == [i \in 1..Len(jobs) |-> jobs[i].id]
    IN
    IF fail.op = "findMany" \/ (HasUndefinedId(jobs) /\ ~lenient)
    THEN Threw(table, ids, fail.op = "findMany")
    ELSE
    LET existingJobPostings == FindExisting(table, companyId, incomingExternalIds)
        deletedByExternalId ==
            { r \in existingJobPostings :
                r.externalId # Null /\ r.externalId \notin Range(incomingExternalIds) }
        isUpdate(i) == ExistingFor(existingJobPostings, jobs[i].id) # {}
        createIdx == SelectIdx(Len(jobs), { i \in 1..Len(jobs) : ~isUpdate(i) }, 1)
        updateIdx == SelectIdx(Len(jobs), { i \in 1..Len(jobs) : isUpdate(i) }, 1)
        createOps == [k \in 1..Len(createIdx) |->
                        SyncJobData(companyId, jobs[createIdx[k]], now, ids + k)]
        updateOps == [k \in 1..Len(updateIdx) |->
                        SyncJobData(companyId, jobs[updateIdx[k]], now, 0)]
    IN
    IF Len(createOps) > 0 /\ (fail.op = "createMany" \/ ViolatesUnique(createOps, table))
    THEN Threw(table, ids, fail.op = "createMany")
    ELSE
    LET t4 == IF Len(createOps) > 0 THEN table \cup Range(createOps) ELSE table
        i4 == IF Len(createOps) > 0 THEN ids + Len(createOps) ELSE ids
        deletedIds == { r.id : r \in deletedByExternalId }
    IN
    IF deletedByExternalId # {} /\ fail.op = "deleteMany"
    THEN Threw(t4, i4, TRUE)
    ELSE
    LET t6 == IF deletedByExternalId # {}
              THEN { r \in t4 : r.id \notin deletedIds }
              ELSE t4
    IN  Returned(t6, i4, Counts(Len(createOps), Len(updateOps),
                                Cardinality(deletedByExternalId)))

----------------------------------------------------------------------------
(* runAshbyELTPipeline of src/jobs/ashby-elt.ts: the postings are the array
   kept in data/job_postings.json *)

\* SHA-256 hex digest of description ?? "".
hashDescription(description) == "sha256:" \o Coalesce(description, "")

ashbyToRawJob(job) ==
    [externalId |-> job.id,
     title |-> Coalesce(job.title, ""),
     description |-> Coalesce(job.descriptionPlain, job.descriptionHtml),
     source |-> "ashby"]

\* normalizeJob of src/data/index.ts, on the properties the pipeline stores.
normalizeRawJob(raw) == [raw EXCEPT !.title = Coalesce(trim(raw.title), "")]

\* byExternalId.get found nothing.
NoPosting == [id |-> Undefined]

\* The posting made from a job; it has no removedAt property.
toJobPosting(raw, companyId, descriptionHash, existing, now) ==
    [id |-> IF existing # NoPosting THEN existing.id ELSE "ashby-" \o raw.externalId,
     companyId |-> companyId,
     externalId |-> raw.externalId,
     source |-> raw.source,
     title |-> raw.title,
     description |-> raw.description,
     descriptionHash |-> descriptionHash,
     firstSeenAt |-> IF existing # NoPosting THEN existing.firstSeenAt ELSE now,
     lastSeenAt |-> now,
     removedAt |-> NullTime]

\* new Map(byCompany.map((p) => [p.externalId ?? p.id, p])).get(id): the last
\* posting with the key wins; no key is undefined.
MapGet(byCompany, id) ==
    LET hits == { k \in 1..Len(byCompany) :
                    Coalesce(byCompany[k].externalId, byCompany[k].id) = id }
    IN  IF id = Undefined \/ hits = {} THEN NoPosting
        ELSE byCompany[CHOOSE k \in hits : \A m \in hits : m <= k]

\* One turn of the loop over the jobs: the posting pushed for the job.
PipelinePosting(byCompany, companyId, job, now) ==
    LET raw == ashbyToRawJob(job)
        normalized == normalizeRawJob(raw)
        descriptionHash == hashDescription(normalized.description)
        existing == MapGet(byCompany, job.id)
        hasChanged == existing # NoPosting /\ existing.descriptionHash # descriptionHash
    IN  [posting |-> IF existing # NoPosting /\ ~hasChanged
                     THEN [existing EXCEPT !.lastSeenAt = now]
                     ELSE toJobPosting(normalized, companyId, descriptionHash, existing, now),
         updated |-> existing # NoPosting /\ hasChanged,
         new |-> existing = NoPosting]

\* seenExternalIds.has(p.externalId ?? p.id.replace(/^ashby-/, "")): the id of
\* a posting without external id is "ashby-undefined", and the string
\* "undefined" is not the value undefined the set may hold.
SeenInCycle(p, jobs) ==
    p.externalId # Undefined /\ \E i \in 1..Len(jobs) : jobs[i].id = p.externalId

PipelineResult(found, new, updated) ==
    [ZeroCounts EXCEPT !.jobsFound = found, !.jobsNew = new, !.jobsUpdated = updated]

\* The pipeline from the fetched jobs on; the raw files it stores are left
\* out.
runAshbyELTPipeline(existingPostings, companyId, jobs, now) ==
    IF Len(jobs) = 0
    THEN [postings |-> existingPostings, result |-> PipelineResult(0, 0, 0)]
    ELSE
    LET byCompany == SelectSeq(existingPostings, LAMBDA p : p.companyId = companyId)
        others == SelectSeq(existingPostings, LAMBDA p : p.companyId # companyId)
        pushed == [i \in 1..Len(jobs) |-> PipelinePosting(byCompany, companyId, jobs[i], now)]
        notSeen == SelectSeq(byCompany, LAMBDA p : ~SeenInCycle(p, jobs))
        removed == [k \in 1..Len(notSeen) |-> [notSeen[k] EXCEPT !.removedAt = now]]
    IN  [postings |-> others \o [i \in 1..Len(jobs) |-> pushed[i].posting] \o removed,
         result |-> PipelineResult(Len(jobs),
                                   Cardinality({ i \in 1..Len(jobs) : pushed[i].new }),
                                   Cardinality({ i \in 1..Len(jobs) : pushed[i].updated }))]

----------------------------------------------------------------------------
(* DataProcessor.upsertAshbyJobs, batched in one interactive transaction *)

\* The fingerprint taken over the title and the description.
UpsertJobData_HashesTitle(job, now) ==
    LET description == Coalesce(job.descriptionPlain, job.descriptionHtml)
    IN  [title |-> Coalesce(trim(job.title), ""),
         description |-> description,
         descriptionHtml |-> job.descriptionHtml,
         descriptionHash |-> hashContent(Coalesce(trim(job.title), "")
                                            \o Coalesce(description, "")),
         lastSeenAt |-> now]

UpsertJobData(job, now) ==
    LET description == Coalesce(job.descriptionPlain, job.descriptionHtml)
    IN  [title |-> Coalesce(trim(job.title), ""),
         description |-> description,
         descriptionHtml |-> job.descriptionHtml,
         descriptionHash |-> hashContent(description),
         lastSeenAt |-> now]

\* A column of an update whose value is undefined is left as it is.
Keep(old, v) == IF v = Undefined THEN old ELSE v

\* The update without removedAt: null.
UpsertUpdateRow_KeepsRemovedAt(r, data) ==
    [r EXCEPT !.title = Keep(r.title, data.title),
              !.description = Keep(r.description, data.description),
              !.descriptionHtml = Keep(r.descriptionHtml, data.descriptionHtml),
              !.descriptionHash = data.descriptionHash,
              !.lastSeenAt = data.lastSeenAt]

\* tx.jobPosting.update with data = { ...jobData, removedAt: null }.
UpsertUpdateRow(r, data) ==
    [r EXCEPT !.title = Keep(r.title, data.title),
              !.description = Keep(r.description, data.description),
              !.descriptionHtml = Keep(r.descriptionHtml, data.descriptionHtml),
              !.descriptionHash = data.descriptionHash,
              !.lastSeenAt = data.lastSeenAt,
              !.removedAt = NullTime]

\* The created row stamped removedAt: now, like its other timestamps.
UpsertCreateRow_StampsRemovedAt(companyId, job, now, id) ==
    LET data == UpsertJobData(job, now)
    IN  [id |-> id,
         companyId |-> companyId,
         source |-> "ashby",
         externalId |-> Column(job.id),
         title |-> data.title,
         description |-> Column(data.description),
         descriptionHtml |-> Column(data.descriptionHtml),
         descriptionHash |-> data.descriptionHash,
         firstSeenAt |-> now,
         lastSeenAt |-> data.lastSeenAt,
         removedAt |-> now]

UpsertCreateRow(companyId, job, now, id) ==
    LET data == UpsertJobData(job, now)
    IN  [id |-> id,
         companyId |-> companyId,
         source |-> "ashby",
         externalId |-> Column(job.id),
         title |-> data.title,
         description |-> Column(data.description),
         descriptionHtml |-> Column(data.descriptionHtml),
         descriptionHash |-> data.descriptionHash,
         firstSeenAt |-> now,
         lastSeenAt |-> data.lastSeenAt,
         removedAt |-> NullTime]

RECURSIVE ApplyUpsertUpdates(_, _, _)
ApplyUpsertUpdates(table, ops, n) ==
    IF n = 0 THEN table
    ELSE LET t == ApplyUpsertUpdates(table, ops, n - 1)
         IN  { IF r.id = ops[n].existingId THEN UpsertUpdateRow(r, ops[n].data) ELSE r
                 : r \in t }

\* The where clause without removedAt: null.
NotSeen_AnyRow(table, companyId, seenExternalIds) ==
    { r \in table : /\ r.companyId = companyId
                    /\ r.source = "ashby"
                    /\ r.externalId # Null
                    /\ r.externalId \notin seenExternalIds \ {Undefined} }

\* updateMany({ companyId, source, removedAt: null, externalId: notIn seen });
\* a row whose externalId is NULL does not match notIn.
NotSeen(table, companyId, seenExternalIds) ==
    { r \in table : /\ r.companyId = companyId
                    /\ r.source = "ashby"
                    /\ r.removedAt = NullTime
                    /\ r.externalId # Null
                    /\ r.externalId \notin seenExternalIds \ {Undefined} }

MarkRemoved(table, rows, now) ==
    { IF r \in rows THEN [r EXCEPT !.removedAt = now] ELSE r : r \in table }

upsertAshbyJobs(table, ids, companyId, jobs, now, fail, lenient) ==
    IF Len(jobs) = 0 THEN Returned(table, ids, Counts(0, 0, 0))
    ELSE
    LET externalIds == [i \in 1..Len(jobs) |-> jobs[i].id]
    IN
    IF fail.op = "findMany" \/ (HasUndefinedId(jobs) /\ ~lenient)
    THEN Threw(table, ids, fail.op = "findMany")
    ELSE
    LET existingRows == FindExisting(table, companyId, externalIds)
        seenExternalIds == Range(externalIds)
        isUpdate(i) == ExistingFor(existingRows, jobs[i].id) # {}
        existing(i) == CHOOSE r \in ExistingFor(existingRows, jobs[i].id) : TRUE
        createIdx == SelectIdx(Len(jobs), { i \in 1..Len(jobs) : ~isUpdate(i) }, 1)
        updateIdx == SelectIdx(Len(jobs), { i \in 1..Len(jobs) : isUpdate(i) }, 1)
        updateOps == [k \in 1..Len(updateIdx) |->
                        LET job == jobs[updateIdx[k]]
                            data == UpsertJobData(job, now)
                        IN  [existingId |-> existing(updateIdx[k]).id,
                             data |-> data,
                             changed |-> existing(updateIdx[k]).descriptionHash
                                            # data.descriptionHash]]
        createOps == [k \in 1..Len(createIdx) |->
                        UpsertCreateRow(companyId, jobs[createIdx[k]], now, ids + k)]
        jobsUpdated == Cardinality({ k \in 1..Len(updateOps) : updateOps[k].changed })
        txInjected == \/ fail.op = "update" /\ fail.k \in 1..Len(updateOps)
                      \/ fail.op = "createMany" /\ Len(createOps) > 0
        txFails == txInjected \/ ViolatesUnique(createOps, table)
    IN
    IF txFails THEN Threw(table, ids, txInjected)
    ELSE
    LET t1 == ApplyUpsertUpdates(table, updateOps, Len(updateOps)) \cup Range(createOps)
        i1 == ids + Len(createOps)
        jobsNew == Len(createOps)
        removed == NotSeen(t1, companyId, seenExternalIds)
    IN
    IF fail.op = "updateMany" THEN Threw(t1, i1, TRUE)
    ELSE Returned(MarkRemoved(t1, removed, now), i1,
                  Counts(jobsNew, jobsUpdated, Cardinality(removed)))

----------------------------------------------------------------------------
(* DataProcessor.upsertAshbyJobs, one lookup and one write per job *)

\* prisma.jobPosting.findUnique by (companyId, source, externalId).
FindUnique(table, companyId, id) ==
    { r \in table : /\ r.companyId = companyId
                    /\ r.source = "ashby"
                    /\ id # Undefined
                    /\ r.externalId = id }

\* One round of the loop over the jobs; st carries the table, the id source,
\* the two counters and whether an operation has thrown.  A client that
\* rejects an undefined externalId rejects the findUnique.
PerRowStep(st, companyId, job, i, now, fail, lenient) ==
    LET data == UpsertJobData(job, now)
        existing == FindUnique(st.table, companyId, job.id)
    IN
    IF st.outcome = "threw" THEN st
    ELSE IF job.id = Undefined /\ ~lenient
    THEN [st EXCEPT !.outcome = "threw"]
    ELSE IF fail.k = i /\ fail.op \in {"findUnique", "write"}
    THEN [st EXCEPT !.outcome = "threw", !.injected = TRUE]
    ELSE IF existing # {}
    THEN LET e == CHOOSE r \in existing : TRUE
             changed == e.descriptionHash # data.descriptionHash
         IN  [st EXCEPT
                !.table = (st.table \ {e}) \cup {UpsertUpdateRow(e, data)},
                !.updated = IF changed THEN st.updated + 1 ELSE st.updated]
    ELSE [st EXCEPT
            !.table = st.table \cup {UpsertCreateRow(companyId, job, now, st.nextId + 1)},
            !.nextId = st.nextId + 1,
            !.new = st.new + 1]

RECURSIVE PerRowLoop(_, _, _, _, _, _, _)
PerRowLoop(st, companyId, jobs, n, now, fail, lenient) ==
    IF n = 0 THEN st
    ELSE PerRowStep(PerRowLoop(st, companyId, jobs, n - 1, now, fail, lenient),
                    companyId, jobs[n], n, now, fail, lenient)

\* The companies table, which the company.upsert of this routine writes, is
\* not read by any reconciliation and is left out of the state.
upsertAshbyJobsPerRow(table, ids, companyId, jobs, now, fail, lenient) ==
    IF fail.op = "company.upsert" THEN Threw(table, ids, TRUE)
    ELSE
    LET st0 == [table |-> table, nextId |-> ids, outcome |-> "returned",
                injected |-> FALSE, new |-> 0, updated |-> 0]
        st == PerRowLoop(st0, companyId, jobs, Len(jobs), now, fail, lenient)
        seenExternalIds == { jobs[i].id : i \in 1..Len(jobs) }
        removed == NotSeen(st.table, companyId, seenExternalIds)
    IN
    IF st.outcome = "threw" THEN Threw(st.table, st.nextId, st.injected)
    ELSE IF fail.op = "updateMany" THEN Threw(st.table, st.nextId, TRUE)
    ELSE Returned(MarkRemoved(st.table, removed, now), st.nextId,
                  Counts(st.new, st.updated, Cardinality(removed)))

----------------------------------------------------------------------------
(* NewsProcessingService.syncNewsArticles *)

\* Tavily results: a page, the same page with its raw content, another page.
TavilyNewsResult ==
    { [url |-> "u1", content |-> "n1", rawContent |-> Undefined],
      [url |-> "u1", content |-> "n1", rawContent |-> "n2"],
      [url |-> "u2", content |-> "n1", rawContent |-> Undefined] }

NewsLists == UNION { [1..n -> TavilyNewsResult] : n \in 0..MaxArticles }

\* NewsELTJob.run maps a result to RawNewsData.
RawNewsData(r) ==
    [url |-> r.url, snippet |-> r.content, content |-> Coalesce(r.rawContent, r.content)]

NewsRowsFor(table, companyId, url) ==
    { r \in table : r.companyId = companyId /\ r.externalUrl = url }

\* One round of the loop over the articles; st carries the table, the id
\* source, the two counters and whether an operation has thrown.
NewsStep(st, companyId, article, i, now, fail) ==
    LET contentHash == hashContent(article.content)
        existing == NewsRowsFor(st.table, companyId, article.url)
    IN
    IF st.outcome = "threw" THEN st
    ELSE IF fail.k = i /\ fail.op \in {"findUnique", "write"}
    THEN [st EXCEPT !.outcome = "threw", !.injected = TRUE]
    ELSE IF existing # {}
    THEN LET e == CHOOSE r \in existing : TRUE
             changed == e.contentHash # contentHash
         IN  [st EXCEPT
                !.table = (st.table \ {e}) \cup
                            {[e EXCEPT !.snippet = article.snippet,
                                       !.content = article.content,
                                       !.contentHash = contentHash,
                                       !.lastSeenAt = now]},
                !.updated = IF changed THEN st.updated + 1 ELSE st.updated]
    ELSE [st EXCEPT
            !.table = st.table \cup
                        {[id |-> st.nextId + 1, companyId |-> companyId,
                          externalUrl |-> article.url, snippet |-> article.snippet,
                          content |-> article.content, contentHash |-> contentHash,
                          firstSeenAt |-> now, lastSeenAt |-> now]},
            !.nextId = st.nextId + 1,
            !.new = st.new + 1]

RECURSIVE NewsLoop(_, _, _, _, _, _)
NewsLoop(st, companyId, articles, n, now, fail) ==
    IF n = 0 THEN st
    ELSE NewsStep(NewsLoop(st, companyId, articles, n - 1, now, fail),
                  companyId, articles[n], n, now, fail)

syncNewsArticles(table, ids, companyId, articles, now, fail) ==
    LET st0 == [table |-> table, nextId |-> ids, outcome |-> "returned",
                injected |-> FALSE, new |-> 0, updated |-> 0]
        st == NewsLoop(st0, companyId, articles, Len(articles), now, fail)
    IN  [table |-> st.table, nextId |-> st.nextId, outcome |-> st.outcome,
         injected |-> st.injected,
         result |-> IF st.outcome = "threw" THEN ZeroCounts
                    ELSE Counts(st.new, st.updated, 0)]

----------------------------------------------------------------------------
(* FundraisingProcessingService.processFundingResults *)

TavilyFundingResult == { [url |-> u, title |-> "Funding"] : u \in {"s1", "s2"} }

SourceLists == UNION { [1..n -> TavilyFundingResult] : n \in 0..MaxSources }

\* What the extraction service returns for one source: the round types, in
\* order; an extraction that fails returns no round.
RoundTypes == {"Seed"}
Extractions == UNION { [1..n -> RoundTypes] : n \in 0..MaxRounds }

RoundRowsFor(table, companyId, url) ==
    { r \in table : r.companyId = companyId /\ r.sourceUrl = url }

\* The update counted in roundsNew.
RoundStep_CountsUpdateAsNew(st, companyId, summaryId, source, k, roundType, now, fail) ==
    LET existing == RoundRowsFor(st.table, companyId, source.url)
    IN
    IF st.outcome = "threw" THEN st
    ELSE IF fail.op = "write" /\ fail.k = k
    THEN [st EXCEPT !.outcome = "threw", !.injected = TRUE]
    ELSE IF existing # {}
    THEN LET e == CHOOSE r \in existing : TRUE
         IN  [st EXCEPT
                !.table = (st.table \ {e}) \cup
                            {[e EXCEPT !.roundType = roundType, !.lastSeenAt = now]},
                !.new = st.new + 1]
    ELSE [st EXCEPT
            !.table = st.table \cup
                        {[id |-> st.nextId + 1, companyId |-> companyId,
                          summaryId |-> summaryId, sourceUrl |-> source.url,
                          roundType |-> roundType,
                          firstSeenAt |-> now, lastSeenAt |-> now]},
            !.nextId = st.nextId + 1,
            !.new = st.new + 1]

\* One extracted round of one source: findUnique by (companyId, sourceUrl),
\* then update or create.
RoundStep(st, companyId, summaryId, source, k, roundType, now, fail) ==
    LET existing == RoundRowsFor(st.table, companyId, source.url)
    IN
    IF st.outcome = "threw" THEN st
    ELSE IF fail.op = "write" /\ fail.k = k
    THEN [st EXCEPT !.outcome = "threw", !.injected = TRUE]
    ELSE IF existing # {}
    THEN LET e == CHOOSE r \in existing : TRUE
         IN  [st EXCEPT
                !.table = (st.table \ {e}) \cup
                            {[e EXCEPT !.roundType = roundType, !.lastSeenAt = now]},
                !.updated = st.updated + 1]
    ELSE [st EXCEPT
            !.table = st.table \cup
                        {[id |-> st.nextId + 1, companyId |-> companyId,
                          summaryId |-> summaryId, sourceUrl |-> source.url,
                          roundType |-> roundType,
                          firstSeenAt |-> now, lastSeenAt |-> now]},
            !.nextId = st.nextId + 1,
            !.new = st.new + 1]

RECURSIVE RoundLoop(_, _, _, _, _, _, _, _, _)
RoundLoop(st, companyId, summaryId, source, k, rounds, m, now, fail) ==
    IF m = 0 THEN st
    ELSE RoundStep(RoundLoop(st, companyId, summaryId, source, k, rounds, m - 1, now, fail),
                   companyId, summaryId, source, k, rounds[m], now, fail)

RECURSIVE SourceLoop(_, _, _, _, _, _, _, _)
SourceLoop(st, companyId, summaryId, results, extracted, n, now, fail) ==
    IF n = 0 THEN st
    ELSE LET before == SourceLoop(st, companyId, summaryId, results, extracted,
                                  n - 1, now, fail)
             counted == IF before.outcome = "threw" THEN before
                        ELSE [before EXCEPT
                                !.totalExtracted = before.totalExtracted + Len(extracted[n])]
         IN  RoundLoop(counted, companyId, summaryId, results[n], n, extracted[n],
                       Len(extracted[n]), now, fail)

\* updateSummaryStats, restricted to roundCount and lastScrapedAt.
UpdateSummaryStats(summaries, rounds, companyId, now) ==
    { IF r.companyId = companyId
      THEN [r EXCEPT !.roundCount =
                        Cardinality({ q \in rounds : q.companyId = companyId }),
                     !.lastScrapedAt = now]
      ELSE r : r \in summaries }

processFundingResults(rounds, summaries, ids, companyId, results, extracted, now, fail) ==
    LET found == { r \in summaries : r.companyId = companyId }
        failed(t, sm, n) ==
            [table |-> t, summaries |-> sm, nextId |-> n, outcome |-> "threw",
             injected |-> TRUE, result |-> ZeroCounts]
    IN
    IF fail.op = "summary" THEN failed(rounds, summaries, ids)
    ELSE
    LET summaries1 == IF found # {} THEN summaries
                      ELSE summaries \cup
                             {[id |-> ids + 1, companyId |-> companyId,
                               roundCount |-> 0, lastScrapedAt |-> NullTime]}
        ids1 == IF found # {} THEN ids ELSE ids + 1
        summary == CHOOSE r \in summaries1 : r.companyId = companyId
        st0 == [table |-> rounds, nextId |-> ids1, outcome |-> "returned",
                injected |-> FALSE, new |-> 0, updated |-> 0, totalExtracted |-> 0]
        st == SourceLoop(st0, companyId, summary.id, results, extracted,
                         Len(results), now, fail)
    IN
    IF st.outcome = "threw" \/ fail.op = "stats"
    THEN failed(st.table, summaries1, st.nextId)
    ELSE [table |-> st.table,
          summaries |-> UpdateSummaryStats(summaries1, st.table, companyId, now),
          nextId |-> st.nextId, outcome |-> "returned", injected |-> FALSE,
          result |-> [Counts(st.new, st.updated, 0)
                        EXCEPT !.totalExtracted = st.totalExtracted]]

----------------------------------------------------------------------------
(* The pipeline runs: AshbyELTJob.run, NewsELTJob.run, FundraisingELTJob.run *)

ScrapingRun(companyId, source, counts, startTime, now) ==
    [companyId |-> companyId, source |-> source, status |-> "completed",
     jobsFound |-> counts.jobsFound, jobsNew |-> counts.jobsNew,
     jobsUpdated |-> counts.jobsUpdated, jobsRemoved |-> counts.jobsRemoved,
     startedAt |-> startTime, completedAt |-> now]

\* The outcome of a run: the tables it leaves, the pipeline result it
\* returns, or the stage whose exception it lets through.
RunThrew(stage, db) ==
    [db EXCEPT !.outcome = "threw", !.stage = stage, !.result = ZeroCounts]

RunReturned(result, db) ==
    [db EXCEPT !.outcome = "returned", !.stage = "none", !.result = result]

\* The steps of a run before its processor is called: the company lookup,
\* the fetch, the early return on an empty fetch and the raw upload.
BeforeProcessing(fail, found, db) ==
    IF fail.op = "company.findUnique" THEN RunThrew("company.findUnique", db)
    ELSE IF fail.op = "scrape" THEN RunThrew("scrape", db)
    ELSE IF found = 0 THEN RunReturned(ZeroCounts, db)
    ELSE IF fail.op = "storeRaw" THEN RunThrew("storeRaw", db)
    ELSE [db EXCEPT !.outcome = "processing"]

\* prisma.scrapingRun.create with status "completed", then the return.
RecordRun(db, companyId, source, result, now, fail) ==
    IF fail.op = "scrapingRun.create" THEN RunThrew("scrapingRun.create", db)
    ELSE RunReturned(result,
            [db EXCEPT !.runs = Append(db.runs,
                                  ScrapingRun(companyId, source, result, now, now))])

AshbyELTJobRun(db, companyId, jobs, now, fail, lenient) ==
    LET found == [ZeroCounts EXCEPT !.jobsFound = Len(jobs)]
        start == BeforeProcessing(fail, Len(jobs), db)
    IN
    IF start.outcome # "processing" THEN
        IF start.outcome = "returned" THEN RunReturned(found, db) ELSE start
    ELSE
    LET dbResult == syncAshbyJobs(db.jobs, db.nextId, companyId, jobs, now, fail, lenient)
        db1 == [db EXCEPT !.jobs = dbResult.table, !.nextId = dbResult.nextId]
    IN
    IF dbResult.outcome = "threw" THEN RunThrew("syncAshbyJobs", db1)
    ELSE RecordRun(db1, companyId, "ashby",
                   [dbResult.result EXCEPT !.jobsFound = Len(jobs)], now, fail)

NewsELTJobRun(db, companyId, results, now, fail) ==
    LET found == [ZeroCounts EXCEPT !.jobsFound = Len(results)]
        start == BeforeProcessing(fail, Len(results), db)
        articles == [i \in 1..Len(results) |-> RawNewsData(results[i])]
    IN
    IF start.outcome # "processing" THEN
        IF start.outcome = "returned" THEN RunReturned(found, db) ELSE start
    ELSE
    LET dbResult == syncNewsArticles(db.news, db.nextId, companyId, articles, now, fail)
        db1 == [db EXCEPT !.news = dbResult.table, !.nextId = dbResult.nextId]
    IN
    IF dbResult.outcome = "threw" THEN RunThrew("syncNewsArticles", db1)
    ELSE RecordRun(db1, companyId, "news",
                   [dbResult.result EXCEPT !.jobsFound = Len(results)], now, fail)

FundraisingELTJobRun(db, companyId, results, extracted, now, fail) ==
    LET found == [ZeroCounts EXCEPT !.jobsFound = Len(results)]
        start == BeforeProcessing(fail, Len(results), db)
    IN
    IF start.outcome # "processing" THEN
        IF start.outcome = "returned" THEN RunReturned(found, db) ELSE start
    ELSE
    LET dbResult == processFundingResults(db.rounds, db.summaries, db.nextId, companyId,
                                          results, extracted, now, fail)
        db1 == [db EXCEPT !.rounds = dbResult.table, !.summaries = dbResult.summaries,
                          !.nextId = dbResult.nextId]
    IN
    IF dbResult.outcome = "threw" THEN RunThrew("processFundingResults", db1)
    ELSE RecordRun(db1, companyId, "fundraising",
                   [dbResult.result EXCEPT !.jobsFound = Len(results)], now, fail)

----------------------------------------------------------------------------
(* normalizeJob: detectRemoteType and extractSeniority *)

\* A text is a sequence of characters; an absent (undefined) text is the
\* sequence AbsentText, which is not a text.
AbsentText == <<Undefined>>

UpperCase ==
    <<"A", "B", "C", "D", "E", "F", "G", "H", "I", "J", "K", "L", "M", "N", "O", "P", "Q", "R", "S", "T", "U", "V", "W", "X", "Y", "Z">>

LowerCase ==
    <<"a", "b", "c", "d", "e", "f", "g", "h", "i", "j", "k", "l", "m", "n", "o", "p", "q", "r", "s", "t", "u", "v", "w", "x", "y", "z">>

ToLowerChar(c) ==
    IF \E i \in 1..Len(UpperCase) : UpperCase[i] = c
    THEN LowerCase[CHOOSE i \in 1..Len(UpperCase) : UpperCase[i] = c]
    ELSE c

\* String.prototype.toLowerCase
toLowerCase(text) == [i \in 1..Len(text) |-> ToLowerChar(text[i])]

\* The text has the word as a substring.
Includes(text, word) ==
    \E i \in 0..(Len(text) - Len(word)) : SubSeq(text, i + 1, i + Len(word)) = word

\* RegExp.prototype.test for a pattern that is an alternation of literal
\* words, with the flag i.
RegexTest(re, text) ==
    \E word \in re : Includes(toLowerCase(text), toLowerCase(word))

REMOTE_RE ==
    { <<"r", "e", "m", "o", "t", "e">>,
      <<"a", "n", "y", "w", "h", "e", "r", "e">>,
      <<"w", "o", "r", "k", " ", "f", "r", "o", "m", " ", "h", "o", "m", "e">> }

HYBRID_RE == { <<"h", "y", "b", "r", "i", "d">> }

INTERN_RE == { <<"i", "n", "t", "e", "r", "n">>, <<"c", "o", "-", "o", "p">> }

ENTRY_RE ==
    { <<"j", "u", "n", "i", "o", "r">>, <<"e", "n", "t", "r", "y">>,
      <<"a", "s", "s", "o", "c", "i", "a", "t", "e">>,
      <<"l", "e", "v", "e", "l", " ", "1">> }

\* sr\.? is sr followed by an optional full stop.
SENIOR_RE ==
    { <<"s", "e", "n", "i", "o", "r">>, <<"s", "r", ".">>, <<"s", "r">>,
      <<"l", "e", "a", "d">>, <<"l", "e", "v", "e", "l", " ", "4">> }

STAFF_RE ==
    { <<"s", "t", "a", "f", "f">>, <<"p", "r", "i", "n", "c", "i", "p", "a", "l">>,
      <<"l", "e", "v", "e", "l", " ", "5">> }

EXEC_RE ==
    { <<"d", "i", "r", "e", "c", "t", "o", "r">>, <<"v", "p">>,
      <<"h", "e", "a", "d", " ", "o", "f">>, <<"c", "h", "i", "e", "f">> }

\* Boolean(text) for a text or undefined: undefined and "" are falsy.
Truthy(text) == text # AbsentText /\ text # <<>>

\* [location, title].filter(Boolean).join(" ")
JoinTruthy(location, title) ==
    IF Truthy(location) /\ Truthy(title) THEN location \o <<" ">> \o title
    ELSE IF Truthy(location) THEN location
    ELSE IF Truthy(title) THEN title
    ELSE <<>>

\* The test of the location alone.
detectRemoteType_LocationOnly(location, title) ==
    LET text == toLowerCase(JoinTruthy(location, AbsentText))
    IN  IF RegexTest(REMOTE_RE, text) THEN "Remote"
        ELSE IF RegexTest(HYBRID_RE, text) THEN "Hybrid"
        ELSE "Onsite"

detectRemoteType(location, title) ==
    LET text == toLowerCase(JoinTruthy(location, title))
    IN  IF RegexTest(REMOTE_RE, text) THEN "Remote"
        ELSE IF RegexTest(HYBRID_RE, text) THEN "Hybrid"
        ELSE "Onsite"

\* The tests with staff before senior.
extractSeniority_StaffFirst(title) ==
    IF ~Truthy(title) THEN "Mid"
    ELSE LET t == toLowerCase(title)
         IN  IF RegexTest(INTERN_RE, t) THEN "Intern"
             ELSE IF RegexTest(ENTRY_RE, t) THEN "Entry"
             ELSE IF RegexTest(STAFF_RE, t) THEN "Staff"
             ELSE IF RegexTest(SENIOR_RE, t) THEN "Senior"
             ELSE IF RegexTest(EXEC_RE, t) THEN "Executive"
             ELSE "Mid"

extractSeniority(title) ==
    IF ~Truthy(title) THEN "Mid"
    ELSE LET t == toLowerCase(title)
         IN  IF RegexTest(INTERN_RE, t) THEN "Intern"
             ELSE IF RegexTest(ENTRY_RE, t) THEN "Entry"
             ELSE IF RegexTest(SENIOR_RE, t) THEN "Senior"
             ELSE IF RegexTest(STAFF_RE, t) THEN "Staff"
             ELSE IF RegexTest(EXEC_RE, t) THEN "Executive"
             ELSE "Mid"

normalizeJob(job) ==
    [remoteType |-> detectRemoteType(job.location, job.title),
     seniorityLevel |-> extractSeniority(job.title)]

\* The words job titles are made of in this model, and the locations.
TitleWords ==
    {
      <<"S", "e", "n", "i", "o", "r">>,
      <<"S", "t", "a", "f", "f">>,
      <<"I", "n", "t", "e", "r", "n">>,
      <<"I", "n", "t", "e", "r", "n", "a", "t", "i", "o", "n", "a", "l">>,
      <<"J", "u", "n", "i", "o", "r">>,
      <<"E", "n", "g", "i", "n", "e", "e", "r">>,
      <<"V", "P">>,
      <<"S", "R", ".">>,
      <<"H", "e", "a", "d">>,
      <<"o", "f">>,
      <<"L", "e", "v", "e", "l">>,
      <<"5">>,
      <<"R", "e", "m", "o", "t", "e">>,
      <<"H", "y", "b", "r", "i", "d">> }

JobLocations ==
    { AbsentText, <<>>,
      <<"R", "e", "m", "o", "t", "e", " ", "-", " ", "U", "S">>,
      <<"N", "e", "w", " ", "Y", "o", "r", "k">>,
      <<"H", "y", "b", "r", "i", "d">>,
      <<"W", "o", "r", "k", " ", "f", "r", "o", "m">> }

RECURSIVE JoinWords(_)
JoinWords(words) ==
    IF Len(words) = 0 THEN <<>>
    ELSE IF Len(words) = 1 THEN words[1]
    ELSE words[1] \o <<" ">> \o JoinWords(Tail(words))

JobTitles ==
    {AbsentText} \cup
    { JoinWords(words) : words \in UNION { [1..n -> TitleWords] : n \in 0..MaxWords } }

\* Contents handed to hashContent: undefined, the empty string, texts.
HashedContents == {Undefined, Null, "", "d1", "d2", "<p>d1</p>"}

----------------------------------------------------------------------------
(* State machine *)

SyncFails == { [op |-> o, k |-> 0] : o \in {"findMany", "createMany", "deleteMany"} }
                 \cup { [op |-> "update", k |-> k] : k \in 1..MaxJobs }

UpsertFails == { [op |-> o, k |-> 0] : o \in {"findMany", "createMany", "updateMany"} }
                   \cup { [op |-> "update", k |-> k] : k \in 1..MaxJobs }

\* The operations of a run that may throw, besides those of its processor.
RunFails == { [op |-> o, k |-> 0] :
                o \in {"company.findUnique", "scrape", "storeRaw", "scrapingRun.create"} }

NewsFails == { [op |-> o, k |-> k] : o \in {"findUnique", "write"}, k \in 1..MaxArticles }

FundingFails == { [op |-> o, k |-> 0] : o \in {"summary", "stats"} }
                    \cup { [op |-> "write", k |-> k] : k \in 1..MaxSources }

\* The Prisma client either rejects or drops an undefined element of `in`.
Lenience(jobs) == IF HasUndefinedId(jobs) THEN BOOLEAN ELSE {TRUE}

NoCall == [op |-> "none", companyId |-> "none", jobs |-> <<>>, now |-> 0,
           outcome |-> "none", stage |-> "none", result |-> ZeroCounts]

\* The posting of the other company, with the same external id as one of
\* the postings of the reconciled company.
OtherCompanyRow ==
    [id |-> 0, companyId |-> "c2", source |-> "ashby", externalId |-> "e1",
     title |-> "Engineer", description |-> "d1", descriptionHtml |-> Null,
     descriptionHash |-> hashContent("d1"),
     firstSeenAt |-> 0, lastSeenAt |-> 0, removedAt |-> NullTime]

NoCycles == <<>>

NoInput == [fn |-> "none"]
NoOutput == [fn |-> "none"]

Init ==
    /\ jobPostings = {OtherCompanyRow}
    /\ newsArticles = {}
    /\ fundingRounds = {}
    /\ fundraisingSummaries = {}
    /\ scrapingRuns = <<>>
    /\ nextId = 0
    /\ clock = 0
    /\ call = NoCall
    /\ pre = {OtherCompanyRow}
    /\ preRuns = 0
    /\ repeat = FALSE
    /\ input = NoInput
    /\ output = NoOutput
    /\ cycles = NoCycles

Now == clock + 1

\* What every call leaves behind: the tick, the record of the call, and
\* the table it works on as it was when the call started.
HistoryOf(table, op, companyId, jobs, outcome, stage, result) ==
    /\ clock' = Now
    /\ call' = [op |-> op, companyId |-> companyId, jobs |-> jobs, now |-> Now,
                outcome |-> outcome, stage |-> stage, result |-> result]
    /\ pre' = table
    /\ preRuns' = Len(scrapingRuns)
    /\ repeat' = /\ call.op = op
                 /\ call.companyId = companyId
                 /\ call.jobs = jobs
                 /\ call.outcome = "returned"
    /\ UNCHANGED <<input, output, cycles>>

History(op, companyId, jobs, outcome, stage, result) ==
    HistoryOf(jobPostings, op, companyId, jobs, outcome, stage, result)

\* One call of a job reconciliation routine `op` whose effect is `res`.
Record(op, companyId, jobs, res) ==
    /\ jobPostings' = res.table
    /\ nextId' = res.nextId
    /\ History(op, companyId, jobs, res.outcome,
               IF res.outcome = "threw" THEN op ELSE "none", res.result)
    /\ UNCHANGED <<newsArticles, fundingRounds, fundraisingSummaries, scrapingRuns>>

\* One call in which the database operation `fail` was made to throw.
RecordFailure(op, companyId, jobs, res, fail) ==
    /\ jobPostings' = res.table
    /\ nextId' = res.nextId
    /\ History(op, companyId, jobs, res.outcome, fail.op, res.result)
    /\ UNCHANGED <<newsArticles, fundingRounds, fundraisingSummaries, scrapingRuns>>

\* syncAshbyJobs with every database operation succeeding.
SyncAshbyJobs ==
    /\ Now <= MaxTime
    /\ \E companyId \in Reconciled, jobs \in JobLists :
         \E lenient \in Lenience(jobs) :
            Record("syncAshbyJobs", companyId, jobs,
                   syncAshbyJobs(jobPostings, nextId, companyId, jobs, Now,
                                 NoFail, lenient))

\* syncAshbyJobs with one database operation throwing.
SyncAshbyJobsFails ==
    /\ Now <= MaxTime
    /\ \E companyId \in Reconciled, jobs \in JobLists, fail \in SyncFails :
            LET res == syncAshbyJobs(jobPostings, nextId, companyId, jobs, Now,
                                     fail, TRUE)
            IN  /\ res.injected
                /\ RecordFailure("syncAshbyJobs", companyId, jobs, res, fail)

\* The batched upsertAshbyJobs with every database operation succeeding.
UpsertAshbyJobs ==
    /\ Now <= MaxTime
    /\ \E companyId \in Reconciled, jobs \in JobLists :
         \E lenient \in Lenience(jobs) :
            Record("upsertAshbyJobs", companyId, jobs,
                   upsertAshbyJobs(jobPostings, nextId, companyId, jobs, Now,
                                   NoFail, lenient))

\* The batched upsertAshbyJobs with one database operation throwing.
UpsertAshbyJobsFails ==
    /\ Now <= MaxTime
    /\ \E companyId \in Reconciled, jobs \in JobLists, fail \in UpsertFails :
            LET res == upsertAshbyJobs(jobPostings, nextId, companyId, jobs, Now,
                                       fail, TRUE)
            IN  /\ res.injected
                /\ RecordFailure("upsertAshbyJobs", companyId, jobs, res, fail)

PerRowFails ==
    { [op |-> o, k |-> 0] : o \in {"company.upsert", "updateMany"} }
        \cup { [op |-> o, k |-> k] : o \in {"findUnique", "write"}, k \in 1..MaxJobs }

\* The per-row upsertAshbyJobs with every database operation succeeding.
UpsertAshbyJobsPerRow ==
    /\ Now <= MaxTime
    /\ \E companyId \in Reconciled, jobs \in JobLists :
         \E lenient \in Lenience(jobs) :
            Record("upsertAshbyJobsPerRow", companyId, jobs,
                   upsertAshbyJobsPerRow(jobPostings, nextId, companyId, jobs, Now,
                                         NoFail, lenient))

\* The per-row upsertAshbyJobs with one database operation throwing.
UpsertAshbyJobsPerRowFails ==
    /\ Now <= MaxTime
    /\ \E companyId \in Reconciled, jobs \in JobLists, fail \in PerRowFails :
            LET res == upsertAshbyJobsPerRow(jobPostings, nextId, companyId, jobs, Now,
                                             fail, TRUE)
            IN  /\ res.injected
                /\ RecordFailure("upsertAshbyJobsPerRow", companyId, jobs, res, fail)

\* syncAshbyJobs on a list that repeats a posting.
SyncRepeatedIds ==
    /\ Now <= MaxTime
    /\ \E companyId \in Reconciled, jobs \in RepeatingLists :
         \E lenient \in Lenience(jobs) :
            Record("syncAshbyJobs", companyId, jobs,
                   syncAshbyJobs(jobPostings, nextId, companyId, jobs, Now,
                                 NoFail, lenient))

\* syncAshbyJobs on the revisions of one posting.
SyncRevisions ==
    /\ Now <= MaxTime
    /\ \E companyId \in Reconciled, jobs \in RevisionLists :
            Record("syncAshbyJobs", companyId, jobs,
                   syncAshbyJobs(jobPostings, nextId, companyId, jobs, Now,
                                 NoFail, TRUE))

\* The batched upsertAshbyJobs on the revisions of one posting.
UpsertRevisions ==
    /\ Now <= MaxTime
    /\ \E companyId \in Reconciled, jobs \in RevisionLists :
            Record("upsertAshbyJobs", companyId, jobs,
                   upsertAshbyJobs(jobPostings, nextId, companyId, jobs, Now,
                                   NoFail, TRUE))

\* upsertAshbyJobs of backend/src/data/data-processor.ts with every
\* database operation succeeding.
UpsertAshbyJobsBackend ==
    /\ Now <= MaxTime
    /\ \E companyId \in Reconciled, jobs \in JobLists :
         \E lenient \in Lenience(jobs) :
            Record("upsertAshbyJobsBackend", companyId, jobs,
                   upsertAshbyJobsBackend(jobPostings, nextId, companyId, jobs, Now,
                                          NoFail, lenient))

\* The posting of the other company in data/job_postings.json.
OtherCompanyPosting ==
    [id |-> "ashby-e1", companyId |-> "c2", externalId |-> "e1", source |-> "ashby",
     title |-> "Engineer", description |-> "d1",
     descriptionHash |-> hashDescription("d1"),
     firstSeenAt |-> 0, lastSeenAt |-> 0, removedAt |-> NullTime]

\* The file-based pipeline starts from a file a cycle of the other company
\* wrote; jobPostings holds the array of the file.
InitPipeline ==
    /\ jobPostings = <<OtherCompanyPosting>>
    /\ newsArticles = {}
    /\ fundingRounds = {}
    /\ fundraisingSummaries = {}
    /\ scrapingRuns = <<>>
    /\ nextId = 0
    /\ clock = 0
    /\ call = NoCall
    /\ pre = <<OtherCompanyPosting>>
    /\ preRuns = 0
    /\ repeat = FALSE
    /\ input = NoInput
    /\ output = NoOutput
    /\ cycles = NoCycles

\* One run of the file-based pipeline.
RunAshbyELTPipeline ==
    /\ Now <= MaxTime
    /\ \E companyId \in Reconciled, jobs \in JobLists :
          LET res == runAshbyELTPipeline(jobPostings, companyId, jobs, Now)
          IN  /\ jobPostings' = res.postings
              /\ History("runAshbyELTPipeline", companyId, jobs, "returned", "none",
                         res.result)
              /\ UNCHANGED <<newsArticles, fundingRounds, fundraisingSummaries,
                             scrapingRuns, nextId>>

\* The lists syncNewsArticles is called with.
ArticleLists == { [i \in 1..Len(l) |-> RawNewsData(l[i])] : l \in NewsLists }

\* syncNewsArticles with every database operation succeeding.
SyncNewsArticles ==
    /\ Now <= MaxTime
    /\ \E companyId \in Reconciled, articles \in ArticleLists :
          LET res == syncNewsArticles(newsArticles, nextId, companyId, articles, Now,
                                      NoFail)
          IN  /\ newsArticles' = res.table
              /\ nextId' = res.nextId
              /\ HistoryOf(newsArticles, "syncNewsArticles", companyId, articles,
                           res.outcome, "none", res.result)
              /\ UNCHANGED <<jobPostings, fundingRounds, fundraisingSummaries,
                             scrapingRuns>>

\* processFundingResults with every database operation succeeding; the
\* extraction service returns `extracted`.
ProcessFundingResults ==
    /\ Now <= MaxTime
    /\ \E companyId \in Reconciled, results \in SourceLists :
         \E extracted \in [1..Len(results) -> Extractions] :
          LET res == processFundingResults(fundingRounds, fundraisingSummaries, nextId,
                                           companyId, results, extracted, Now, NoFail)
          IN  /\ fundingRounds' = res.table
              /\ fundraisingSummaries' = res.summaries
              /\ nextId' = res.nextId
              /\ HistoryOf(fundingRounds, "processFundingResults", companyId,
                           <<results, extracted>>, res.outcome, "none", res.result)
              /\ UNCHANGED <<jobPostings, newsArticles, scrapingRuns>>

Database ==
    [jobs |-> jobPostings, news |-> newsArticles, rounds |-> fundingRounds,
     summaries |-> fundraisingSummaries, runs |-> scrapingRuns, nextId |-> nextId,
     outcome |-> "none", stage |-> "none", result |-> ZeroCounts]

\* One pipeline run whose effect is `res`.  The argument of a run is the
\* company; the fetched list is not an argument and is not recorded.
RecordRunOf(op, companyId, res) ==
    /\ jobPostings' = res.jobs
    /\ newsArticles' = res.news
    /\ fundingRounds' = res.rounds
    /\ fundraisingSummaries' = res.summaries
    /\ scrapingRuns' = res.runs
    /\ nextId' = res.nextId
    /\ History(op, companyId, <<>>, res.outcome, res.stage, res.result)

\* AshbyELTJob.run: the fetch returns `jobs`; at most one operation throws.
RunAshbyELTJob ==
    /\ Now <= MaxRunTime
    /\ \E companyId \in Reconciled, jobs \in JobLists,
          fail \in {NoFail} \cup RunFails \cup SyncFails :
         \E lenient \in Lenience(jobs) :
            LET res == AshbyELTJobRun(Database, companyId, jobs, Now, fail, lenient)
            IN  /\ (fail = NoFail \/ (res.outcome = "threw" /\ lenient))
                /\ RecordRunOf("AshbyELTJob.run", companyId, res)

\* NewsELTJob.run: the fetch returns `results`; at most one operation throws.
RunNewsELTJob ==
    /\ Now <= MaxRunTime
    /\ \E companyId \in Reconciled, results \in NewsLists,
          fail \in {NoFail} \cup RunFails \cup NewsFails :
            LET res == NewsELTJobRun(Database, companyId, results, Now, fail)
            IN  /\ (fail = NoFail \/ res.outcome = "threw")
                /\ RecordRunOf("NewsELTJob.run", companyId, res)

\* FundraisingELTJob.run: the fetch returns `results`, the extraction
\* service returns `extracted`; at most one operation throws.
RunFundraisingELTJob ==
    /\ Now <= MaxRunTime
    /\ \E companyId \in Reconciled, results \in SourceLists,
          fail \in {NoFail} \cup RunFails \cup FundingFails :
         \E extracted \in [1..Len(results) -> Extractions] :
            LET res == FundraisingELTJobRun(Database, companyId, results, extracted,
                                            Now, fail)
            IN  /\ (fail = NoFail \/ res.outcome = "threw")
                /\ RecordRunOf("FundraisingELTJob.run", companyId, res)

\* The utility functions are pure: a behaviour of theirs starts with an
\* argument and consists of the one call.
UtilityInputs ==
    { [fn |-> "normalizeJob", job |-> [title |-> t, location |-> l]] :
        t \in JobTitles, l \in JobLocations }
    \cup { [fn |-> "hashContent", content |-> c] : c \in HashedContents }

InitUtilities ==
    /\ jobPostings = {OtherCompanyRow}
    /\ newsArticles = {}
    /\ fundingRounds = {}
    /\ fundraisingSummaries = {}
    /\ scrapingRuns = <<>>
    /\ nextId = 0
    /\ clock = 0
    /\ call = NoCall
    /\ pre = {OtherCompanyRow}
    /\ preRuns = 0
    /\ repeat = FALSE
    /\ input \in UtilityInputs
    /\ output = NoOutput
    /\ cycles = NoCycles

Tables ==
    <<jobPostings, newsArticles, fundingRounds, fundraisingSummaries,
      scrapingRuns, nextId, clock, call, pre, preRuns, repeat>>

NormalizeJob ==
    /\ input.fn = "normalizeJob"
    /\ output = NoOutput
    /\ output' = [fn |-> "normalizeJob", value |-> normalizeJob(input.job)]
    /\ UNCHANGED <<Tables, input, cycles>>

HashContent ==
    /\ input.fn = "hashContent"
    /\ output = NoOutput
    /\ output' = [fn |-> "hashContent", value |-> hashContent(input.content)]
    /\ UNCHANGED <<Tables, input, cycles>>

NextUtilities == NormalizeJob \/ HashContent

SpecUtilities == InitUtilities /\ [][NextUtilities]_vars

\* Two cycles, one per company, whose database operations interleave.  A
\* cycle is at one of its awaited operations; what it computes between two
\* of them is part of the step that follows.
Routines == {"syncAshbyJobs", "upsertAshbyJobs"}

\* Lists whose jobs all carry an id.
ConcurrentLists ==
    { jobs \in JobLists : ~HasUndefinedId(jobs) }

\* The table the two cycles start from: a posting of each company with the
\* same external id, and a posting of c1 from another source.
OwnRow == [OtherCompanyRow EXCEPT !.id = -1, !.companyId = "c1"]

OtherSourceRow == [OtherCompanyRow EXCEPT !.id = -2, !.companyId = "c1",
                                          !.source = "linkedin"]

SeededTable == {OtherCompanyRow, OwnRow, OtherSourceRow}

\* Each cycle reads the clock when it is called.
CycleNow(companyId) == IF companyId = "c1" THEN 1 ELSE 2

StartOfCycle(routine, jobs) ==
    [routine |-> routine, jobs |-> jobs, pc |-> "findMany", existing |-> {},
     k |-> 0, new |-> 0, updated |-> 0, outcome |-> "none", result |-> ZeroCounts]

InitConcurrent ==
    /\ jobPostings = SeededTable
    /\ newsArticles = {}
    /\ fundingRounds = {}
    /\ fundraisingSummaries = {}
    /\ scrapingRuns = <<>>
    /\ nextId = 0
    /\ clock = 0
    /\ call = NoCall
    /\ pre = SeededTable
    /\ preRuns = 0
    /\ repeat = FALSE
    /\ input = NoInput
    /\ output = NoOutput
    /\ cycles \in [Companies ->
                      { StartOfCycle(routine, jobs) :
                          routine \in Routines, jobs \in ConcurrentLists }]

\* Everything but the table, the id source and the cycles.
Untouched ==
    <<newsArticles, fundingRounds, fundraisingSummaries, scrapingRuns, clock,
      call, pre, preRuns, repeat, input, output>>

\* The lookup of a cycle over every company.
CycleLookup_AnyCompany(table, companyId, jobs) ==
    { r \in table : /\ r.source = "ashby"
                    /\ r.externalId \in InList([i \in 1..Len(jobs) |-> jobs[i].id]) }

\* The lookup of a cycle, in either routine.
CycleLookup(table, companyId, jobs) ==
    FindExisting(table, companyId, [i \in 1..Len(jobs) |-> jobs[i].id])

\* The jobs of the list, in list order, that have / do not have a row
\* among those the lookup returned.
PlanUpdateIdx(existing, jobs) ==
    SelectIdx(Len(jobs), { i \in 1..Len(jobs) : ExistingFor(existing, jobs[i].id) # {} }, 1)

PlanCreateIdx(existing, jobs) ==
    SelectIdx(Len(jobs), { i \in 1..Len(jobs) : ExistingFor(existing, jobs[i].id) = {} }, 1)

PlanExisting(existing, job) == CHOOSE r \in ExistingFor(existing, job.id) : TRUE

\* The early return on an empty list, or the findMany.
CycleFindMany(c) ==
    /\ cycles[c].pc = "findMany"
    /\ cycles' =
         [cycles EXCEPT ![c] =
            IF Len(cycles[c].jobs) = 0
            THEN [cycles[c] EXCEPT !.pc = "done", !.outcome = "returned",
                                   !.result = Counts(0, 0, 0)]
            ELSE [cycles[c] EXCEPT
                    !.existing = CycleLookup(jobPostings, c, cycles[c].jobs),
                    !.pc = IF cycles[c].routine = "upsertAshbyJobs"
                           THEN "transaction" ELSE "createMany"]]
    /\ UNCHANGED <<jobPostings, nextId, Untouched>>

\* prisma.$transaction of upsertAshbyJobs: the updates, then the createMany;
\* all of it or, when the createMany is rejected, none of it.
CycleTransaction(c) ==
    LET cy == cycles[c]
        now == CycleNow(c)
        updateIdx == PlanUpdateIdx(cy.existing, cy.jobs)
        createIdx == PlanCreateIdx(cy.existing, cy.jobs)
        updateOps == [k \in 1..Len(updateIdx) |->
                        LET job == cy.jobs[updateIdx[k]]
                            data == UpsertJobData(job, now)
                        IN  [existingId |-> PlanExisting(cy.existing, job).id,
                             data |-> data,
                             changed |-> PlanExisting(cy.existing, job).descriptionHash
                                            # data.descriptionHash]]
        createOps == [k \in 1..Len(createIdx) |->
                        UpsertCreateRow(c, cy.jobs[createIdx[k]], now, nextId + k)]
    IN
    /\ cy.pc = "transaction"
    /\ IF ViolatesUnique(createOps, jobPostings)
       THEN /\ cycles' = [cycles EXCEPT ![c].pc = "threw", ![c].outcome = "threw"]
            /\ UNCHANGED <<jobPostings, nextId>>
       ELSE /\ jobPostings' = ApplyUpsertUpdates(jobPostings, updateOps, Len(updateOps))
                                  \cup Range(createOps)
            /\ nextId' = nextId + Len(createOps)
            /\ cycles' = [cycles EXCEPT
                            ![c].pc = "updateMany",
                            ![c].new = Len(createOps),
                            ![c].updated = Cardinality({ k \in 1..Len(updateOps) :
                                                           updateOps[k].changed })]
    /\ UNCHANGED Untouched

\* The updateMany of upsertAshbyJobs, and its return.
CycleUpdateMany(c) ==
    LET cy == cycles[c]
        removed == NotSeen(jobPostings, c, { cy.jobs[i].id : i \in 1..Len(cy.jobs) })
    IN
    /\ cy.pc = "updateMany"
    /\ jobPostings' = MarkRemoved(jobPostings, removed, CycleNow(c))
    /\ cycles' = [cycles EXCEPT
                    ![c].pc = "done", ![c].outcome = "returned",
                    ![c].result = Counts(cy.new, cy.updated, Cardinality(removed))]
    /\ UNCHANGED <<nextId, Untouched>>

\* Step 3 of syncAshbyJobs: the createMany, when there is something to
\* create.
CycleCreateMany(c) ==
    LET cy == cycles[c]
        createIdx == PlanCreateIdx(cy.existing, cy.jobs)
        createOps == [k \in 1..Len(createIdx) |->
                        SyncJobData(c, cy.jobs[createIdx[k]], CycleNow(c), nextId + k)]
    IN
    /\ cy.pc = "createMany"
    /\ IF Len(createOps) > 0 /\ ViolatesUnique(createOps, jobPostings)
       THEN /\ cycles' = [cycles EXCEPT ![c].pc = "threw", ![c].outcome = "threw"]
            /\ UNCHANGED <<jobPostings, nextId>>
       ELSE /\ jobPostings' = jobPostings \cup Range(createOps)
            /\ nextId' = nextId + Len(createOps)
            /\ cycles' = [cycles EXCEPT ![c].pc = "update", ![c].k = 1,
                                        ![c].new = Len(createOps)]
    /\ UNCHANGED Untouched

\* Step 4 of syncAshbyJobs: the next update of the loop.
CycleUpdate(c) ==
    LET cy == cycles[c]
        updateIdx == PlanUpdateIdx(cy.existing, cy.jobs)
        job == cy.jobs[updateIdx[cy.k]]
        op == [SyncJobData(c, job, CycleNow(c), 0)
                 EXCEPT !.id = PlanExisting(cy.existing, job).id]
    IN
    /\ cy.pc = "update"
    /\ cy.k <= Len(updateIdx)
    /\ jobPostings' = { IF r.id = op.id THEN SyncUpdateRow(r, op) ELSE r : r \in jobPostings }
    /\ cycles' = [cycles EXCEPT ![c].k = cy.k + 1, ![c].updated = cy.updated + 1]
    /\ UNCHANGED <<nextId, Untouched>>

\* Step 5 of syncAshbyJobs, after the last update: the deleteMany, when
\* there is something to delete, and the return.
CycleDeleteMany(c) ==
    LET cy == cycles[c]
        incoming == { cy.jobs[i].id : i \in 1..Len(cy.jobs) }
        deletedByExternalId ==
            { r \in cy.existing : r.externalId # Null /\ r.externalId \notin incoming }
        deletedIds == { r.id : r \in deletedByExternalId }
    IN
    /\ cy.pc = "update"
    /\ cy.k > Len(PlanUpdateIdx(cy.existing, cy.jobs))
    /\ jobPostings' = { r \in jobPostings : r.id \notin deletedIds }
    /\ cycles' = [cycles EXCEPT
                    ![c].pc = "done", ![c].outcome = "returned",
                    ![c].result = Counts(cy.new, cy.updated,
                                         Cardinality(deletedByExternalId))]
    /\ UNCHANGED <<nextId, Untouched>>

NextConcurrent ==
    \E c \in Companies :
        \/ CycleFindMany(c)
        \/ CycleTransaction(c)
        \/ CycleUpdateMany(c)
        \/ CycleCreateMany(c)
        \/ CycleUpdate(c)
        \/ CycleDeleteMany(c)

SpecConcurrent == InitConcurrent /\ [][NextConcurrent]_vars

NextSync == SyncAshbyJobs

SpecSync == Init /\ [][NextSync]_vars

NextBatched == UpsertAshbyJobs

SpecBatched == Init /\ [][NextBatched]_vars

NextJobs == SyncAshbyJobs \/ UpsertAshbyJobs

SpecJobs == Init /\ [][NextJobs]_vars

NextSyncFails == SyncAshbyJobs \/ SyncAshbyJobsFails

SpecSyncFails == Init /\ [][NextSyncFails]_vars

NextBatchedFails == UpsertAshbyJobs \/ UpsertAshbyJobsFails

SpecBatchedFails == Init /\ [][NextBatchedFails]_vars

NextJobsFails ==
    \/ SyncAshbyJobs \/ SyncAshbyJobsFails
    \/ UpsertAshbyJobs \/ UpsertAshbyJobsFails

SpecJobsFails == Init /\ [][NextJobsFails]_vars

NextUpserts == UpsertAshbyJobs \/ UpsertAshbyJobsPerRow

SpecUpserts == Init /\ [][NextUpserts]_vars

NextPerRowFails == UpsertAshbyJobsPerRow \/ UpsertAshbyJobsPerRowFails

SpecPerRowFails == Init /\ [][NextPerRowFails]_vars

----------------------------------------------------------------------------
(* Two calls of syncNewsArticles on one company, interleaved *)

Callers == {"p1", "p2"}

\* Each call reads the clock when it starts.
CallNow(p) == IF p = "p1" THEN 1 ELSE 2

StartOfCall(articles) ==
    [articles |-> articles, pc |-> "findUnique", i |-> 1, existing |-> {},
     new |-> 0, updated |-> 0, created |-> {}]

\* Both calls are for company c1, on a table without rows.
InitNewsRace ==
    /\ jobPostings = {OtherCompanyRow}
    /\ newsArticles = {}
    /\ fundingRounds = {}
    /\ fundraisingSummaries = {}
    /\ scrapingRuns = <<>>
    /\ nextId = 0
    /\ clock = 0
    /\ call = NoCall
    /\ pre = {OtherCompanyRow}
    /\ preRuns = 0
    /\ repeat = FALSE
    /\ input = NoInput
    /\ output = NoOutput
    /\ cycles \in [Callers -> { StartOfCall(articles) : articles \in ArticleLists }]

\* Everything but news_articles, the id source and the calls.
NewsUntouched ==
    <<jobPostings, fundingRounds, fundraisingSummaries, scrapingRuns, clock,
      call, pre, preRuns, repeat, input, output>>

\* A table without the unique index on (companyId, externalUrl).
NewsViolatesUnique_NoIndex(table, companyId, url) == FALSE

\* The unique index news_articles(companyId, externalUrl).
NewsViolatesUnique(table, companyId, url) ==
    NewsRowsFor(table, companyId, url) # {}

\* The loop condition and prisma.newsArticle.findUnique for the next
\* article; after the last article the call returns.
NewsFindUnique(p) ==
    /\ cycles[p].pc = "findUnique"
    /\ cycles' =
         [cycles EXCEPT ![p] =
            IF cycles[p].i > Len(cycles[p].articles)
            THEN [cycles[p] EXCEPT !.pc = "returned"]
            ELSE [cycles[p] EXCEPT
                    !.existing = NewsRowsFor(newsArticles, "c1",
                                             cycles[p].articles[cycles[p].i].url),
                    !.pc = IF NewsRowsFor(newsArticles, "c1",
                                          cycles[p].articles[cycles[p].i].url) # {}
                           THEN "update" ELSE "create"]]
    /\ UNCHANGED <<newsArticles, nextId, NewsUntouched>>

\* prisma.newsArticle.update of the row the lookup returned.
NewsUpdate(p) ==
    LET cy == cycles[p]
        article == cy.articles[cy.i]
        contentHash == hashContent(article.content)
        existing == CHOOSE r \in cy.existing : TRUE
        changed == existing.contentHash # contentHash
    IN
    /\ cy.pc = "update"
    /\ newsArticles' =
         { IF r.id = existing.id
           THEN [r EXCEPT !.snippet = article.snippet, !.content = article.content,
                          !.contentHash = contentHash, !.lastSeenAt = CallNow(p)]
           ELSE r : r \in newsArticles }
    /\ cycles' = [cycles EXCEPT ![p].pc = "findUnique", ![p].i = cy.i + 1,
                                ![p].updated = IF changed THEN cy.updated + 1
                                               ELSE cy.updated]
    /\ UNCHANGED <<nextId, NewsUntouched>>

\* prisma.newsArticle.create; the rejection by the unique index is not
\* caught, the call throws.
NewsCreate(p) ==
    LET cy == cycles[p]
        article == cy.articles[cy.i]
    IN
    /\ cy.pc = "create"
    /\ IF NewsViolatesUnique(newsArticles, "c1", article.url)
       THEN /\ cycles' = [cycles EXCEPT ![p].pc = "threw"]
            /\ UNCHANGED <<newsArticles, nextId>>
       ELSE /\ newsArticles' = newsArticles \cup
                   {[id |-> nextId + 1, companyId |-> "c1",
                     externalUrl |-> article.url, snippet |-> article.snippet,
                     content |-> article.content,
                     contentHash |-> hashContent(article.content),
                     firstSeenAt |-> CallNow(p), lastSeenAt |-> CallNow(p)]}
            /\ nextId' = nextId + 1
            /\ cycles' = [cycles EXCEPT ![p].pc = "findUnique", ![p].i = cy.i + 1,
                                        ![p].new = cy.new + 1,
                                        ![p].created = cy.created \cup {article.url}]
    /\ UNCHANGED NewsUntouched

NextNewsRace ==
    \E p \in Callers : NewsFindUnique(p) \/ NewsUpdate(p) \/ NewsCreate(p)

SpecNewsRace == InitNewsRace /\ [][NextNewsRace]_vars

NextSyncRevisions == SyncRevisions \/ SyncAshbyJobs \/ SyncAshbyJobsFails

SpecSyncRevisions == Init /\ [][NextSyncRevisions]_vars

NextUpsertRevisions == UpsertRevisions

SpecUpsertRevisions == Init /\ [][NextUpsertRevisions]_vars

NextBackend == UpsertAshbyJobsBackend

SpecBackend == Init /\ [][NextBackend]_vars

NextPipeline == RunAshbyELTPipeline

SpecPipeline == InitPipeline /\ [][NextPipeline]_vars

NextSyncRepeats == SyncAshbyJobs \/ SyncRepeatedIds

SpecSyncRepeats == Init /\ [][NextSyncRepeats]_vars

NextNews == SyncNewsArticles

SpecNews == Init /\ [][NextNews]_vars

NextFunding == ProcessFundingResults

SpecFunding == Init /\ [][NextFunding]_vars

NextAshbyRun == RunAshbyELTJob

SpecAshbyRun == Init /\ [][NextAshbyRun]_vars

NextRun == RunAshbyELTJob \/ RunNewsELTJob \/ RunFundraisingELTJob

SpecRun == Init /\ [][NextRun]_vars

Next ==
    \/ SyncAshbyJobs \/ SyncAshbyJobsFails
    \/ UpsertAshbyJobs \/ UpsertAshbyJobsFails
    \/ UpsertAshbyJobsPerRow \/ UpsertAshbyJobsPerRowFails
    \/ RunAshbyELTJob \/ RunNewsELTJob \/ RunFundraisingELTJob

Spec == Init /\ [][Next]_vars

----------------------------------------------------------------------------
(* Vocabulary of the properties *)

Sync == call.op = "syncAshbyJobs"
Upsert == call.op = "upsertAshbyJobs"
ReturnedNormally == call.outcome = "returned"

\* The description a job is fingerprinted by.
DescriptionOf(job) == Coalesce(job.descriptionPlain, job.descriptionHtml)

IncomingIds(jobs) == { jobs[i].id : i \in 1..Len(jobs) } \ {Undefined}

\* Rows of the reconciled company and source in a table.
Scope(table, companyId) ==
    { r \in table : r.companyId = companyId /\ r.source = "ashby" }

RowsFor(table, companyId, externalId) ==
    { r \in Scope(table, companyId) : r.externalId = externalId }

ById(table, id) == { r \in table : r.id = id }

\* Rows that were active before the last call and are absent from its list.
Disappeared ==
    { r \in Scope(pre, call.companyId) :
        r.removedAt = NullTime /\ r.externalId \notin IncomingIds(call.jobs) }

\* Positions of the incoming list whose external id had a row before the
\* call, with a stored hash that differs from / equals the fresh one.
Surviving ==
    { i \in 1..Len(call.jobs) : RowsFor(pre, call.companyId, call.jobs[i].id) # {} }

ChangedJobs ==
    { i \in Surviving :
        \E r \in RowsFor(pre, call.companyId, call.jobs[i].id) :
            r.descriptionHash # hashContent(DescriptionOf(call.jobs[i])) }

NewJobs == (1..Len(call.jobs)) \ Surviving

----------------------------------------------------------------------------
(* Properties *)

WellFormed == ~HasUndefinedId(call.jobs)

\* C1: a second syncAshbyJobs call with the same non-empty list, right after
\* the first one returned, returns jobsNew = 0, jobsUpdated = 0 and
\* jobsRemoved = 0 (stated for lists whose jobs all carry an id).
C1_SecondCallReturnsZeros ==
    (Sync /\ repeat /\ ReturnedNormally /\ Len(call.jobs) > 0 /\ WellFormed)
        => /\ call.result.jobsNew = 0
           /\ call.result.jobsUpdated = 0
           /\ call.result.jobsRemoved = 0

\* Rows of the company that were active before the last call.
ActiveBefore ==
    { r \in Scope(pre, call.companyId) : r.removedAt = NullTime }

AshbyRun == call.op = "AshbyELTJob.run"
AnyRun == call.op \in {"AshbyELTJob.run", "NewsELTJob.run", "FundraisingELTJob.run"}

\* C2: an AshbyELTJob.run cycle whose fetch returns no job while N >= 1
\* rows of the company are active leaves all N rows with a removedAt and
\* reports found = 0, created = 0, updated = 0, removed = N.
C2_EmptyFetchRemovesEveryActiveRow ==
    (AshbyRun /\ ReturnedNormally /\ call.result.jobsFound = 0 /\ ActiveBefore # {})
        => /\ \A r \in ActiveBefore :
                \E q \in ById(jobPostings, r.id) : q.removedAt # NullTime
           /\ call.result.jobsNew = 0
           /\ call.result.jobsUpdated = 0
           /\ call.result.jobsRemoved = Cardinality(ActiveBefore)

\* C3: after a syncAshbyJobs cycle with a non-empty list, every row that was
\* active before and whose external id is absent from the list has removedAt
\* equal to the cycle's timestamp, and jobsRemoved counts these rows
\* (stated for lists whose jobs all carry an id).
C3_DisappearedRowsAreMarkedRemoved ==
    (Sync /\ ReturnedNormally /\ Len(call.jobs) > 0 /\ WellFormed)
        => /\ \A r \in Disappeared :
                \E q \in ById(jobPostings, r.id) : q.removedAt = call.now
           /\ call.result.jobsRemoved = Cardinality(Disappeared)

\* C4: jobsUpdated of a syncAshbyJobs cycle is the number of incoming jobs
\* whose external id already has a row with a different stored hash, and
\* every surviving row has lastSeenAt equal to the cycle's timestamp
\* (stated for lists whose jobs all carry an id).
C4_UpdatedCountsChangedRowsOnly ==
    (Sync /\ ReturnedNormally /\ WellFormed)
        => /\ call.result.jobsUpdated = Cardinality(ChangedJobs)
           /\ \A i \in Surviving :
                \A r \in RowsFor(pre, call.companyId, call.jobs[i].id) :
                    \E q \in ById(jobPostings, r.id) : q.lastSeenAt = call.now

\* Jobs of the last list whose posting was marked removed before the call
\* and comes back with the description its row stores.
Reappearing ==
    { i \in Surviving :
        \E r \in RowsFor(pre, call.companyId, call.jobs[i].id) :
            /\ r.removedAt # NullTime
            /\ r.description = DescriptionOf(call.jobs[i]) }

\* C5: in the batched upsertAshbyJobs, a job whose row was created by an
\* earlier cycle and marked removed by a later one, and that is present
\* again with the same description, keeps its row (same internal id, no
\* second row for the external id, not counted in jobsNew), has removedAt
\* null and lastSeenAt equal to the cycle's timestamp afterwards, and adds
\* nothing to jobsUpdated.
C5_ReappearingJobUpdatesItsRow ==
    (Upsert /\ ReturnedNormally)
        => /\ \A i \in Reappearing :
                \A r \in RowsFor(pre, call.companyId, call.jobs[i].id) :
                    /\ \E q \in ById(jobPostings, r.id) :
                            /\ q.externalId = r.externalId
                            /\ q.removedAt = NullTime
                            /\ q.lastSeenAt = call.now
                    /\ Cardinality(RowsFor(jobPostings, call.companyId, r.externalId)) = 1
                    /\ i \notin ChangedJobs
           /\ call.result.jobsNew = Cardinality(NewJobs)
           /\ call.result.jobsUpdated = Cardinality(ChangedJobs)

\* A third cycle in which a removed posting is back, unchanged.
C5_Witness ==
    /\ Upsert /\ ReturnedNormally
    /\ Reappearing # {}
    /\ call.now >= 3

C8_OneRunRecordPerCycle ==
    AnyRun => Len(scrapingRuns) = preRuns + 1

\* C9: when the raw upload or syncAshbyJobs throws inside AshbyELTJob.run,
\* a scraping_runs row with status failed is written for the cycle; a row
\* with status completed is written only by a run that returned.
C9_FailedRunIsRecorded ==
    AshbyRun
        => /\ (call.outcome = "threw" /\ call.stage \in {"storeRaw", "syncAshbyJobs"})
                => /\ Len(scrapingRuns) = preRuns + 1
                   /\ scrapingRuns[Len(scrapingRuns)].status = "failed"
           /\ \A i \in (preRuns + 1)..Len(scrapingRuns) :
                scrapingRuns[i].status = "completed" => ReturnedNormally

\* C10: when some incoming job has no external id, syncAshbyJobs returns
\* normally, creates no row for that job, and processes every other job
\* of the list.
C10_MalformedRecordIsSkipped ==
    (Sync /\ HasUndefinedId(call.jobs))
        => /\ ReturnedNormally
           /\ \A q \in jobPostings : q.externalId = Null => q \in pre
           /\ \A i \in 1..Len(call.jobs) :
                call.jobs[i].id # Undefined
                    => \E q \in RowsFor(jobPostings, call.companyId, call.jobs[i].id) :
                            q.lastSeenAt = call.now

\* The plan of the last cycle, read off the table: the external ids of the
\* rows it inserted, of the rows it found and wrote, and of the rows it
\* marked removed.  A NULL external id is not an external id.
ExternalIdsOf(rows) == { r.externalId : r \in rows } \ {Null}

CreatedIds ==
    ExternalIdsOf({ q \in Scope(jobPostings, call.companyId) : ById(pre, q.id) = {} })

UpdatedIds ==
    ExternalIdsOf({ r \in Scope(pre, call.companyId) :
                      \E q \in ById(jobPostings, r.id) : q.lastSeenAt = call.now })

RemovedIds ==
    ExternalIdsOf({ r \in Scope(pre, call.companyId) :
                      \E q \in ById(jobPostings, r.id) : q.removedAt = call.now })

RepeatsAnId(jobs) ==
    \E i, j \in 1..Len(jobs) : i # j /\ jobs[i].id = jobs[j].id /\ jobs[i].id # Undefined

\* C12: after any sequence of cycles, failed ones included, job_postings
\* holds at most one row for each (companyId, source, externalId).
C12_UniquenessKey ==
    \A a, b \in jobPostings :
        (/\ a.externalId # Null
         /\ a.companyId = b.companyId
         /\ a.source = b.source
         /\ a.externalId = b.externalId) => a = b

\* A cycle whose list repeats an external id has run, and the table holds
\* the row of that id.
C12_Witness ==
    /\ (Sync \/ Upsert)
    /\ RepeatsAnId(call.jobs)
    /\ \E i \in 1..Len(call.jobs) :
          RowsFor(jobPostings, call.companyId, call.jobs[i].id) # {}

\* C13: with cycles run one after the other on a clock that does not go
\* back, every job_postings row has firstSeenAt <= lastSeenAt.
C13_TimestampOrder ==
    \A r \in jobPostings : r.firstSeenAt <= r.lastSeenAt

\* A syncAshbyJobs cycle has written a row that an earlier cycle created.
C13_Witness ==
    /\ Sync
    /\ \E r \in Scope(jobPostings, call.companyId) :
          r.firstSeenAt < r.lastSeenAt /\ r.lastSeenAt = call.now

Normalized == output.fn = "normalizeJob"

\* The seniority categories in the order they are tested, with their
\* keywords.
SeniorityOrder == <<"Intern", "Entry", "Senior", "Staff", "Executive">>

SeniorityKeywords ==
    [Intern |-> { <<"i", "n", "t", "e", "r", "n">>, <<"c", "o", "-", "o", "p">> },
     Entry |-> { <<"j", "u", "n", "i", "o", "r">>, <<"e", "n", "t", "r", "y">>,
                 <<"a", "s", "s", "o", "c", "i", "a", "t", "e">>, <<"l", "e", "v", "e", "l", " ", "1">> },
     Senior |-> { <<"s", "e", "n", "i", "o", "r">>, <<"s", "r">>, <<"l", "e", "a", "d">>,
                  <<"l", "e", "v", "e", "l", " ", "4">> },
     Staff |-> { <<"s", "t", "a", "f", "f">>, <<"p", "r", "i", "n", "c", "i", "p", "a", "l">>,
                 <<"l", "e", "v", "e", "l", " ", "5">> },
     Executive |-> { <<"d", "i", "r", "e", "c", "t", "o", "r">>, <<"v", "p">>,
                     <<"h", "e", "a", "d", " ", "o", "f">>, <<"c", "h", "i", "e", "f">> }]

\* A keyword of the category occurs in the lowercased title.
Occurs(category, title) ==
    \E word \in SeniorityKeywords[category] : Includes(toLowerCase(title), word)

Matching(title) ==
    { k \in 1..Len(SeniorityOrder) : Occurs(SeniorityOrder[k], title) }

\* C14: extractSeniority returns the first category, in the order intern,
\* entry, senior, staff, executive, one of whose keywords occurs in the
\* lowercased title, and mid when none occurs or the title is absent or
\* empty.
C14_SeniorityPrecedence ==
    Normalized =>
        LET title == input.job.title
        IN  IF title = AbsentText \/ title = <<>> \/ Matching(title) = {}
            THEN output.value.seniorityLevel = "Mid"
            ELSE output.value.seniorityLevel =
                    SeniorityOrder[CHOOSE k \in Matching(title) :
                                      \A m \in Matching(title) : k <= m]

\* A title with a senior keyword and a staff keyword.
C14_Witness ==
    /\ Normalized
    /\ input.job.title # AbsentText
    /\ Occurs("Senior", input.job.title)
    /\ Occurs("Staff", input.job.title)
    /\ Matching(input.job.title) = {3, 4}
    /\ output.value.seniorityLevel = "Senior"

\* The lowercased text made of the location, then the title, absent and
\* empty ones skipped.
CombinedText(job) ==
    LET parts == SelectSeq(<<job.location, job.title>>,
                           LAMBDA t : t # AbsentText /\ t # <<>>)
    IN  toLowerCase(JoinWords(parts))

HasRemoteWord(text) ==
    \/ Includes(text, <<"r", "e", "m", "o", "t", "e">>)
    \/ Includes(text, <<"a", "n", "y", "w", "h", "e", "r", "e">>)
    \/ Includes(text, <<"w", "o", "r", "k", " ", "f", "r", "o", "m", " ", "h", "o", "m", "e">>)

HasHybridWord(text) == Includes(text, <<"h", "y", "b", "r", "i", "d">>)

\* C15: detectRemoteType returns remote when the lowercased text made of
\* location and title contains remote vocabulary, otherwise hybrid when it
\* contains hybrid, otherwise onsite; a keyword in the title alone is
\* enough, and with both fields absent the result is onsite.
C15_RemoteDetection ==
    Normalized =>
        LET text == CombinedText(input.job)
        IN  /\ output.value.remoteType =
                  IF HasRemoteWord(text) THEN "Remote"
                  ELSE IF HasHybridWord(text) THEN "Hybrid"
                  ELSE "Onsite"
            /\ (input.job.location = AbsentText /\ input.job.title = AbsentText)
                  => output.value.remoteType = "Onsite"

\* The location says hybrid and only the title says remote.
C15_Witness ==
    /\ Normalized
    /\ input.job.location # AbsentText
    /\ HasHybridWord(toLowerCase(input.job.location))
    /\ ~HasRemoteWord(toLowerCase(input.job.location))
    /\ input.job.title # AbsentText
    /\ HasRemoteWord(toLowerCase(input.job.title))
    /\ output.value.remoteType = "Remote"

Hashed == output.fn = "hashContent"

PerRow == call.op = "upsertAshbyJobsPerRow"

\* A table up to the internal ids of its rows.
UpToIds(table) == { [r EXCEPT !.id = 0] : r \in table }

\* What the other upsertAshbyJobs does with the table and the list of the
\* last call; its fresh ids are taken above every id in use.
OtherUpsert ==
    IF PerRow
    THEN upsertAshbyJobs(pre, nextId, call.companyId, call.jobs, call.now, NoFail, TRUE)
    ELSE upsertAshbyJobsPerRow(pre, nextId, call.companyId, call.jobs, call.now,
                               NoFail, TRUE)

\* C17: on the same table and the same list, the per-row and the batched
\* upsertAshbyJobs have the same outcome, return the same jobsNew,
\* jobsUpdated and jobsRemoved, and leave the same rows up to internal ids
\* (stated for lists whose jobs all carry an id).
C17_BatchingKeepsResults ==
    ((Upsert \/ PerRow) /\ WellFormed)
        => /\ OtherUpsert.outcome = call.outcome
           /\ OtherUpsert.result = call.result
           /\ UpToIds(OtherUpsert.table) = UpToIds(jobPostings)

\* A cycle has ended when it has returned or thrown.
Ended(c) == cycles[c].pc \in {"done", "threw"}

\* The routine of a cycle, called on a table with every operation
\* succeeding.
CycleAlone(c, table, ids) ==
    IF cycles[c].routine = "upsertAshbyJobs"
    THEN upsertAshbyJobs(table, ids, c, cycles[c].jobs, CycleNow(c), NoFail, TRUE)
    ELSE syncAshbyJobs(table, ids, c, cycles[c].jobs, CycleNow(c), NoFail, TRUE)

\* The two cycles run one after the other, first then second.
OneAfterTheOther(first, second) ==
    LET r1 == CycleAlone(first, SeededTable, 0)
        r2 == CycleAlone(second, r1.table, r1.nextId)
    IN  [table |-> r2.table,
         outcome |-> (first :> r1.outcome @@ second :> r2.outcome),
         result |-> (first :> r1.result @@ second :> r2.result)]

SameAsOneAfterTheOther(first, second) ==
    LET seq == OneAfterTheOther(first, second)
    IN  /\ UpToIds(jobPostings) = UpToIds(seq.table)
        /\ \A c \in Companies :
              /\ cycles[c].outcome = seq.outcome[c]
              /\ cycles[c].outcome = "returned" => cycles[c].result = seq.result[c]

\* C18: however the database operations of two cycles on different
\* companies interleave, each cycle returns the counts and the table ends
\* in the state of the two cycles run one after the other; a cycle that
\* has not started its writes finds the rows of its company as they were,
\* and the rows of another source are never written.
C18_CompaniesAreIndependent ==
    /\ (\A c \in Companies : Ended(c))
          => /\ SameAsOneAfterTheOther("c1", "c2")
             /\ SameAsOneAfterTheOther("c2", "c1")
    /\ \A c \in Companies :
          cycles[c].pc \in {"findMany", "transaction", "createMany"}
              => Scope(jobPostings, c) = Scope(SeededTable, c)
    /\ { r \in jobPostings : r.source # "ashby" }
          = { r \in SeededTable : r.source # "ashby" }

\* Both cycles have ended after writing, and one wrote between two
\* operations of the other.
C18_Witness ==
    /\ \A c \in Companies : Ended(c) /\ cycles[c].outcome = "returned"
    /\ \A c \in Companies : Scope(jobPostings, c) # Scope(SeededTable, c)
    /\ \E r \in Scope(jobPostings, "c1") : r.removedAt = CycleNow("c1")
    /\ \E r \in Scope(jobPostings, "c2") : r.lastSeenAt = CycleNow("c2")

\* C19: when a write of a batched upsertAshbyJobs cycle fails (an update,
\* the createMany, or the marking of removed rows), the call throws and
\* job_postings is as it was before the cycle.
C19_WritesAreAtomic ==
    (Upsert /\ call.outcome = "threw") => jobPostings = pre

\* The createMany of the last call threw: it was made to, or the unique
\* index rejected it (the one operation that throws by itself on a list
\* whose jobs all carry an id).
CreateManyFailed ==
    /\ call.outcome = "threw"
    /\ \/ call.stage = "createMany"
       \/ call.stage = call.op /\ WellFormed

\* C20: when the createMany of a syncAshbyJobs cycle fails, the call throws,
\* returns no counts, and job_postings is as it was before the cycle.
C20_FailedCreateLeavesTableUntouched ==
    (Sync /\ CreateManyFailed)
        => /\ jobPostings = pre
           /\ call.result = ZeroCounts

\* A syncAshbyJobs cycle with jobs to create and rows to update whose
\* createMany failed.
C20_Witness ==
    /\ Sync /\ CreateManyFailed
    /\ NewJobs # {}
    /\ Surviving # {}

----------------------------------------------------------------------------
(* C21 *)

\* C21: in every state that cycles of syncAshbyJobs reach, the stored
\* hash of every row of job_postings is the hash of the description stored
\* in the same row, a NULL description being hashed as the empty string.
C21_StoredHashMatchesDescription ==
    \A r \in jobPostings : r.descriptionHash = hashContent(r.description)

\* A cycle has updated a row that held a description with a job that has
\* neither a plain nor an HTML description: the row holds NULL and the hash
\* of the empty string.
C21_Witness ==
    /\ Sync /\ ReturnedNormally
    /\ \E i \in Surviving :
          /\ DescriptionOf(call.jobs[i]) = Undefined
          /\ \E old \in RowsFor(pre, call.companyId, call.jobs[i].id) :
                /\ old.description # Null
                /\ \E r \in ById(jobPostings, old.id) :
                      r.description = Null /\ r.descriptionHash = hashContent("")

----------------------------------------------------------------------------
(* C22 *)

\* The job at position i of the list of the call that ends a step has the
\* description the job of the same posting had in the call before it, a
\* plain text that is present in both.
SamePlainText(i) ==
    /\ call'.jobs[i].descriptionPlain # Undefined
    /\ \E k \in 1..Len(call.jobs) :
          /\ call.jobs[k].id = call'.jobs[i].id
          /\ call.jobs[k].descriptionPlain = call'.jobs[i].descriptionPlain

\* C22: a call of the batched upsertAshbyJobs that returns counts in
\* jobsUpdated the surviving jobs whose description hash (plain text, or
\* HTML when there is no plain text) differs from the stored hash, and no
\* others; when it follows a call that returned, it counts no job whose
\* plain text is present and the same in both calls, whatever happened to
\* the title or to the HTML.
C22_ChangeDetectionReadsDescriptionOnly ==
    [][ (call'.op = "upsertAshbyJobs" /\ call'.outcome = "returned") =>
          /\ call'.result.jobsUpdated = Cardinality(ChangedJobs')
          /\ (Upsert /\ ReturnedNormally) =>
                \A i \in 1..Len(call'.jobs) : SamePlainText(i) => i \notin ChangedJobs' ]_vars

\* A cycle brought a posting with the stored plain text under another title
\* or with another HTML description, and counted no update.
C22_Witness ==
    /\ Upsert /\ ReturnedNormally
    /\ call.result.jobsUpdated = 0
    /\ \E i \in Surviving : \E old \in RowsFor(pre, call.companyId, call.jobs[i].id) :
          /\ call.jobs[i].descriptionPlain # Undefined
          /\ old.description = call.jobs[i].descriptionPlain
          /\ old.descriptionHash = hashContent(old.description)
          /\ \/ old.title # trim(call.jobs[i].title)
             \/ /\ call.jobs[i].descriptionHtml # Undefined
                /\ old.descriptionHtml # call.jobs[i].descriptionHtml

----------------------------------------------------------------------------
(* C23 *)

Backend == call.op = "upsertAshbyJobsBackend"

\* C23: after upsertAshbyJobs of backend/src/data/data-processor.ts has
\* returned from a call with a non-empty list, every row that existed
\* before the call and whose external id is in the list carries the title,
\* the description and the description hash of a job of the list with that
\* id, lastSeenAt equal to the time of the call, and removedAt = NULL.
C23_ExistingRowsAreUpdated ==
    (Backend /\ ReturnedNormally /\ Len(call.jobs) > 0) =>
        \A old \in Scope(pre, call.companyId) :
            old.externalId \in IncomingIds(call.jobs) =>
                \E r \in ById(jobPostings, old.id) :
                    /\ r.lastSeenAt = call.now
                    /\ r.removedAt = NullTime
                    /\ \E i \in 1..Len(call.jobs) :
                          /\ call.jobs[i].id = r.externalId
                          /\ r.title = Coalesce(trim(call.jobs[i].title), "")
                          /\ r.description = Column(DescriptionOf(call.jobs[i]))
                          /\ r.descriptionHash = hashContent(DescriptionOf(call.jobs[i]))

----------------------------------------------------------------------------
(* C24 *)

Pipeline == call.op = "runAshbyELTPipeline"

\* C24: in the file-based runAshbyELTPipeline, a posting of the company
\* that had removedAt set before a cycle with a non-empty job list, and
\* that is absent from that list, has the same removedAt after the cycle.
C24_RemovedAtIsTheFirstAbsence ==
    (Pipeline /\ Len(call.jobs) > 0) =>
        \A i \in 1..Len(pre) :
            ( /\ pre[i].companyId = call.companyId
              /\ pre[i].removedAt # NullTime
              /\ ~SeenInCycle(pre[i], call.jobs) ) =>
                \E k \in 1..Len(jobPostings) :
                    /\ jobPostings[k].id = pre[i].id
                    /\ jobPostings[k].removedAt = pre[i].removedAt

----------------------------------------------------------------------------
(* C25 *)

News == call.op = "syncNewsArticles"

\* C25: a call of syncNewsArticles that repeats the call before it (same
\* company, same list, the first one returned) returns articlesNew = 0 and
\* articlesUpdated = 0 and leaves the number of rows as it was; the list may
\* hold one URL more than once.
C25_SecondNewsSyncReturnsZeros ==
    (News /\ repeat /\ ReturnedNormally) =>
        /\ call.result.jobsNew = 0
        /\ call.result.jobsUpdated = 0
        /\ Cardinality(newsArticles) = Cardinality(pre)

----------------------------------------------------------------------------
(* C26 *)

Funding == call.op = "processFundingResults"

\* C26: a call of processFundingResults that repeats the call before it
\* (same company, same search results, the same extracted rounds, the first
\* one returned) returns roundsNew = 0 and roundsUpdated = 0.
C26_SecondFundingSyncReturnsZeros ==
    (Funding /\ repeat /\ ReturnedNormally) =>
        /\ call.result.jobsNew = 0
        /\ call.result.jobsUpdated = 0

----------------------------------------------------------------------------
(* C27 *)

\* C27: in every state that cycles of the batched upsertAshbyJobs reach
\* from a table without rows of the company, every row with removedAt set
\* has lastSeenAt <= removedAt; after a cycle with a non-empty list that
\* returned, every row of the company whose external id is in the list has
\* removedAt = NULL, and a cycle with an empty list changes no row.
C27_RemovedRowsWereSeenBefore ==
    /\ \A r \in jobPostings : r.removedAt # NullTime => r.lastSeenAt <= r.removedAt
    /\ (Upsert /\ ReturnedNormally /\ Len(call.jobs) > 0) =>
          \A r \in Scope(jobPostings, call.companyId) :
              r.externalId \in IncomingIds(call.jobs) => r.removedAt = NullTime
    /\ (Upsert /\ Len(call.jobs) = 0) => jobPostings = pre

\* A cycle has brought back one removed posting while another one stays
\* removed, last seen before its removal.
C27_Witness ==
    /\ Upsert /\ ReturnedNormally
    /\ \E r \in Scope(jobPostings, call.companyId) :
          /\ r.removedAt # NullTime
          /\ r.lastSeenAt < r.removedAt
          /\ r.removedAt < call.now
    /\ \E old \in Scope(pre, call.companyId) :
          /\ old.removedAt # NullTime
          /\ old.externalId \in IncomingIds(call.jobs)
          /\ \E r \in ById(jobPostings, old.id) :
                r.removedAt = NullTime /\ r.lastSeenAt = call.now

----------------------------------------------------------------------------
(* C28 *)

\* The list of the last call holds twice an external id that had no row
\* when the call started.
RepeatsANewId ==
    \E i, k \in 1..Len(call.jobs) :
        /\ i # k
        /\ call.jobs[i].id # Undefined
        /\ call.jobs[i].id = call.jobs[k].id
        /\ RowsFor(pre, call.companyId, call.jobs[i].id) = {}

\* C28: a call of syncAshbyJobs whose list holds twice an external id
\* that has no row throws instead of returning counts, and leaves
\* job_postings as it was: no row of the create batch is inserted and no
\* update or removal of the cycle is applied.
C28_DuplicateIdsFailTheCycle ==
    (Sync /\ RepeatsANewId) => (call.outcome = "threw" /\ jobPostings = pre)

\* The failed cycle had, besides the repeated new id, a job whose row
\* existed, with another description than the stored one.
C28_Witness ==
    /\ Sync /\ RepeatsANewId
    /\ call.outcome = "threw"
    /\ ChangedJobs # {}
    /\ jobPostings = pre

----------------------------------------------------------------------------
(* C30 *)

RoundsOf(table, companyId) == { r \in table : r.companyId = companyId }

\* C30: after a call of processFundingResults that returned, the company
\* has as many rows of funding_rounds as before the call plus roundsNew,
\* roundsNew + roundsUpdated = totalExtracted, and no two rows of
\* funding_rounds have the same (companyId, sourceUrl).
C30_RoundsAreKeyedBySourceUrl ==
    /\ \A a, b \in fundingRounds :
          (a.companyId = b.companyId /\ a.sourceUrl = b.sourceUrl) => a = b
    /\ (Funding /\ ReturnedNormally) =>
          /\ Cardinality(RoundsOf(fundingRounds, call.companyId))
                = Cardinality(RoundsOf(pre, call.companyId)) + call.result.jobsNew
          /\ call.result.jobsNew + call.result.jobsUpdated = call.result.totalExtracted

\* A source without a row yielded two rounds: the first was created, the
\* second updated the row of the first.
C30_Witness ==
    /\ Funding /\ ReturnedNormally
    /\ \E n \in 1..Len(call.jobs[1]) :
          /\ Len(call.jobs[2][n]) = 2
          /\ RoundRowsFor(pre, call.companyId, call.jobs[1][n].url) = {}
          /\ Cardinality(RoundRowsFor(fundingRounds, call.companyId,
                                      call.jobs[1][n].url)) = 1
    /\ call.result.jobsNew >= 1
    /\ call.result.jobsUpdated >= 1

----------------------------------------------------------------------------
(* C29 *)

CallReturned(p) == cycles[p].pc = "returned"
CallThrew(p) == cycles[p].pc = "threw"

\* C29: while and after two calls of syncNewsArticles run interleaved on
\* one company, news_articles holds at most one row for a (companyId,
\* externalUrl), and at most one of the calls that returned has counted a
\* given URL in articlesNew.
C29_RaceCreatesOneRow ==
    /\ \A a, b \in newsArticles :
          (a.companyId = b.companyId /\ a.externalUrl = b.externalUrl) => a = b
    /\ \A p, q \in Callers :
          (p # q /\ CallReturned(p) /\ CallReturned(q)) =>
              cycles[p].created \cap cycles[q].created = {}

\* Both calls looked the same URL up before either had written it: one
\* created the row and returned, the create of the other was rejected.
C29_Witness ==
    \E p, q \in Callers :
        /\ CallReturned(p) /\ CallThrew(q)
        /\ \E url \in cycles[p].created :
              /\ cycles[q].articles[cycles[q].i].url = url
              /\ Cardinality(NewsRowsFor(newsArticles, "c1", url)) = 1

============================================================================
